---------------------------- MODULE Spec2Model ----------------------------
(***************************************************************************)
(* CRCrypt Web: password-based AES-CBC / AES-GCM text encryption.          *)
(*                                                                         *)
(* The model follows src/crypto.js (encryptText, decryptText and their     *)
(* helpers) and src/utils/hex.js (toHex, fromHex).                         *)
(*                                                                         *)
(* Representation                                                          *)
(*   - a byte buffer (Uint8Array) is a sequence of numbers 0..255;         *)
(*   - a plaintext or a password is a sequence of Unicode code points;     *)
(*   - a hex string or an envelope is a sequence of one-character strings; *)
(*   - an optional option of the opts bag is <<>> (absent) or <<v>>.       *)
(*                                                                         *)
(* The Web Crypto provider is outside the repository.  It is modelled as   *)
(* an ideal cipher: PBKDF2 is injective in (password, salt, iterations,    *)
(* length), AES-GCM opens only what was sealed under the same key and IV,  *)
(* and AES-CBC applied to bytes it did not produce under that key yields   *)
(* either a padding error or unrelated bytes.                              *)
(***************************************************************************)
EXTENDS Integers, Sequences, FiniteSets, TLC

-----------------------------------------------------------------------------
(* Bytes and buffers                                                       *)

Fill(n, v) == [i \in 1..n |-> v]

AllZero(b) == \A i \in 1..Len(b) : b[i] = 0

\* wipeBytes: bytes.fill(0)
wipeBytes(b) == [i \in 1..Len(b) |-> 0]

Pow2(k) == CASE k = 0 -> 1 [] k = 1 -> 2 [] k = 2 -> 4 [] k = 3 -> 8
             [] k = 4 -> 16 [] k = 5 -> 32 [] k = 6 -> 64 [] OTHER -> 128

\* the byte b with bit k (0..7) inverted
FlipBit(b, k) == IF (b \div Pow2(k)) % 2 = 1 THEN b - Pow2(k) ELSE b + Pow2(k)

-----------------------------------------------------------------------------
(* src/utils/hex.js                                                        *)

HexDigits == << "0", "1", "2", "3", "4", "5", "6", "7",
                "8", "9", "a", "b", "c", "d", "e", "f" >>

UpperHexDigits == << "0", "1", "2", "3", "4", "5", "6", "7",
                     "8", "9", "A", "B", "C", "D", "E", "F" >>

\* lut[i] = (i < 16 ? "0" : "") + i.toString(16), as its two characters
HexLut(b) == << HexDigits[(b \div 16) + 1], HexDigits[(b % 16) + 1] >>

\* toHex with the digits of i.toString(16).toUpperCase()
toHexUpper(bytes) ==
    [j \in 1..(2 * Len(bytes)) |->
        IF j % 2 = 1 THEN UpperHexDigits[(bytes[(j + 1) \div 2] \div 16) + 1]
        ELSE UpperHexDigits[(bytes[j \div 2] % 16) + 1]]

\* toHex: hexChars[j++] = h[0]; hexChars[j++] = h[1]; join("")
toHex(bytes) ==
    [j \in 1..(2 * Len(bytes)) |-> HexLut(bytes[(j + 1) \div 2])[2 - (j % 2)]]

\* parseInt(c, 16) of every character that /^[0-9a-fA-F]+$/ admits
HexValue ==
    [c \in {HexDigits[d] : d \in 1..16} \cup {UpperHexDigits[d] : d \in 1..16} |->
        (CHOOSE d \in 1..16 : c = HexDigits[d] \/ c = UpperHexDigits[d]) - 1]

IsHexChar(c) == c \in DOMAIN HexValue

HexVal(c) == HexValue[c]

IsSpace(c) == c = " "

\* String.prototype.trim on a sequence of characters
RECURSIVE TrimLeft(_)
TrimLeft(s) == IF s # <<>> /\ IsSpace(Head(s)) THEN TrimLeft(Tail(s)) ELSE s

RECURSIVE TrimRight(_)
TrimRight(s) ==
    IF s # <<>> /\ IsSpace(s[Len(s)]) THEN TrimRight(SubSeq(s, 1, Len(s) - 1)) ELSE s

Trim(s) == TrimRight(TrimLeft(s))

ErrHexOdd == "Invalid hex: length must be even"
ErrHexChars == "Invalid hex: contains non-hex characters"

\* fromHex without its two checks: a trailing odd character is dropped and
\* a character that is no hex digit counts as 0
fromHexUnchecked(hex) ==
    LET trimmed == Trim(hex)
        val(c) == IF IsHexChar(c) THEN HexVal(c) ELSE 0
    IN [ok |-> TRUE,
        bytes |-> [o \in 1..(Len(trimmed) \div 2) |->
                      16 * val(trimmed[2 * o - 1]) + val(trimmed[2 * o])],
        err |-> ""]

\* fromHex: [ok, bytes, err]
fromHex(hex) ==
    LET trimmed == Trim(hex) IN
    IF Len(trimmed) = 0 THEN [ok |-> TRUE, bytes |-> <<>>, err |-> ""]
    ELSE IF Len(trimmed) % 2 = 1 THEN [ok |-> FALSE, bytes |-> <<>>, err |-> ErrHexOdd]
    ELSE IF \E i \in 1..Len(trimmed) : ~IsHexChar(trimmed[i])
         THEN [ok |-> FALSE, bytes |-> <<>>, err |-> ErrHexChars]
    ELSE [ok |-> TRUE,
          bytes |-> [o \in 1..(Len(trimmed) \div 2) |->
                        16 * HexVal(trimmed[2 * o - 1]) + HexVal(trimmed[2 * o])],
          err |-> ""]

\* String.prototype.split(":"): the fields lie between consecutive separators,
\* counting the positions before the first and after the last character
Split(s) ==
    LET seps == {0, Len(s) + 1} \cup {i \in 1..Len(s) : s[i] = ":"}
        sep(k) == CHOOSE p \in seps : Cardinality({q \in seps : q < p}) = k
    IN [k \in 1..(Cardinality(seps) - 1) |-> SubSeq(s, sep(k - 1) + 1, sep(k) - 1)]

\* `${a}:${b}:...`
RECURSIVE Join(_)
Join(fields) ==
    IF Len(fields) = 0 THEN <<>>
    ELSE IF Len(fields) = 1 THEN fields[1]
    ELSE fields[1] \o << ":" >> \o Join(Tail(fields))

-----------------------------------------------------------------------------
(* TextEncoder / TextDecoder("utf-8")                                      *)

ReplacementChar == 65533
ByteOrderMark == 65279

\* UTF-8 bytes of one code point (lone surrogates become U+FFFD)
EncodeCodePoint(cp) ==
    IF cp < 128 THEN << cp >>
    ELSE IF cp < 2048 THEN << 192 + (cp \div 64), 128 + (cp % 64) >>
    ELSE IF cp >= 55296 /\ cp <= 57343 THEN << 239, 191, 189 >>
    ELSE IF cp < 65536
         THEN << 224 + (cp \div 4096), 128 + ((cp \div 64) % 64), 128 + (cp % 64) >>
    ELSE << 240 + (cp \div 262144), 128 + ((cp \div 4096) % 64),
            128 + ((cp \div 64) % 64), 128 + (cp % 64) >>

\* the bytes of the code points, one after the other
RECURSIVE utf8Encode(_)
utf8Encode(str) ==
    IF str = <<>> THEN <<>>
    ELSE IF Len(str) = 1 THEN EncodeCodePoint(str[1])
    ELSE LET half == Len(str) \div 2
         IN utf8Encode(SubSeq(str, 1, half)) \o utf8Encode(SubSeq(str, half + 1, Len(str)))

IsCont(b) == b >= 128 /\ b <= 191

\* the code point that starts at position i of b and the bytes it takes;
\* non-fatal decoding: an ill-formed byte yields U+FFFD and takes one byte
DecodeAt(b, i) ==
    IF b[i] < 128 THEN [cp |-> b[i], len |-> 1]
    ELSE IF b[i] >= 194 /\ b[i] <= 223 /\ i + 1 <= Len(b) /\ IsCont(b[i + 1])
         THEN [cp |-> (b[i] - 192) * 64 + (b[i + 1] - 128), len |-> 2]
    ELSE IF b[i] >= 224 /\ b[i] <= 239 /\ i + 2 <= Len(b)
               /\ IsCont(b[i + 1]) /\ IsCont(b[i + 2])
         THEN LET cp == (b[i] - 224) * 4096 + (b[i + 1] - 128) * 64 + (b[i + 2] - 128)
              IN IF cp < 2048 \/ (cp >= 55296 /\ cp <= 57343)
                 THEN [cp |-> ReplacementChar, len |-> 1]
                 ELSE [cp |-> cp, len |-> 3]
    ELSE IF b[i] >= 240 /\ b[i] <= 244 /\ i + 3 <= Len(b)
               /\ IsCont(b[i + 1]) /\ IsCont(b[i + 2]) /\ IsCont(b[i + 3])
         THEN LET cp == (b[i] - 240) * 262144 + (b[i + 1] - 128) * 4096
                          + (b[i + 2] - 128) * 64 + (b[i + 3] - 128)
              IN IF cp < 65536 \/ cp > 1114111
                 THEN [cp |-> ReplacementChar, len |-> 1]
                 ELSE [cp |-> cp, len |-> 4]
    ELSE [cp |-> ReplacementChar, len |-> 1]

\* the code points decoded from position i on, one after the other.  The
\* decoder starts a code point at every position that no earlier code point,
\* of at most 4 bytes, has taken
DecodeFrom(b, i) ==
    LET Starts(p) ==
            \A q \in (IF p - 3 > i THEN p - 3 ELSE i)..(p - 1) : q + DecodeAt(b, q).len <= p
        starts == SelectSeq([k \in 1..(Len(b) - i + 1) |-> k + i - 1], Starts)
    IN [k \in 1..Len(starts) |-> DecodeAt(b, starts[k]).cp]

\* dec.decode(bytes): ignoreBOM is false, so a leading EF BB BF is dropped
utf8Decode(bytes) ==
    IF Len(bytes) >= 3 /\ bytes[1] = 239 /\ bytes[2] = 187 /\ bytes[3] = 191
    THEN DecodeFrom(bytes, 4)
    ELSE DecodeFrom(bytes, 1)

\* code points String.prototype.trim removes (those the model uses)
WhiteSpace == {9, 10, 13, 32, 160, ByteOrderMark}

\* str.trim() === ""
IsBlank(str) == \A i \in 1..Len(str) : str[i] \in WhiteSpace

-----------------------------------------------------------------------------
(* src/crypto.js: constants and helpers                                    *)

DEFAULTS == [algorithm |-> "AES-CBC", saltLength |-> 32, ivLength |-> 16,
             iterations |-> 100000, keyLength |-> 32]

BlockSize == 16
TAG_LEN == 16

\* a || b for an optional number: undefined and 0 are falsy
OrDefault(o, d) == IF o = <<>> THEN d ELSE IF o[1] = 0 THEN d ELSE o[1]

\* opts.algorithm || DEFAULTS.algorithm ("" stands for an absent algorithm)
AlgOrDefault(a) == IF a = "" THEN DEFAULTS.algorithm ELSE a

ErrKeyLen == "AES requires a 16, 24, or 32-byte key length"
ErrGcmIv == "AES-GCM requires a 12-byte IV length"
ErrCbcIv == "AES-CBC requires a 16-byte IV length"
ErrAlgorithm == "Unsupported algorithm"
ErrPlainEmpty == "Plaintext cannot be empty"
ErrPassEmpty == "Password cannot be empty"
ErrPassEmptyKdf == "Password must not be empty"
ErrRandomLen == "randomBytes length must be a positive integer"
ErrIterations == "Iterations must be a positive integer"
ErrEncEmpty == "Encrypted input cannot be empty"
ErrFormat == "Invalid format. Expected salt:iv:ciphertext or salt:iv:ciphertext:tag"
ErrPadding == "Invalid padding"
ErrDecryptFailed == "Decryption failed: wrong password or mismatched parameters"
ErrOperation == "Decryption failed: wrong password or corrupted input"
\* the provider's rejection of an encrypt call (a DOMException)
ErrProvider == "OperationError"

ParamErrors == {ErrKeyLen, ErrGcmIv, ErrCbcIv, ErrAlgorithm}

validKeyLens == {16, 24, 32}

\* validateCipherParams without the checks of the IV length
validateKeyLengthOnly(algorithm, keyLength, ivLength) ==
    IF keyLength \notin validKeyLens THEN ErrKeyLen
    ELSE IF algorithm \notin {"AES-GCM", "AES-CBC"} THEN ErrAlgorithm
    ELSE ""

\* validateCipherParams: "" when the parameters pass, else the message thrown
validateCipherParams(algorithm, keyLength, ivLength) ==
    IF keyLength \notin validKeyLens THEN ErrKeyLen
    ELSE IF algorithm = "AES-GCM"
         THEN (IF ivLength # 12 THEN ErrGcmIv ELSE "")
    ELSE IF algorithm = "AES-CBC"
         THEN (IF ivLength # 16 THEN ErrCbcIv ELSE "")
    ELSE ErrAlgorithm

\* padding that adds nothing to data whose length is a multiple of the block
pkcs7PadToMultiple(data) ==
    LET padLen == (BlockSize - (Len(data) % BlockSize)) % BlockSize
    IN [i \in 1..(Len(data) + padLen) |-> IF i <= Len(data) THEN data[i] ELSE padLen]

\* pkcs7Pad(data, 16): a new buffer, data followed by padLen bytes of value padLen
pkcs7Pad(data) ==
    LET rem == Len(data) % BlockSize
        padLen == IF rem = 0 THEN BlockSize ELSE BlockSize - rem
    IN [i \in 1..(Len(data) + padLen) |-> IF i <= Len(data) THEN data[i] ELSE padLen]

\* unpadding that trusts the last byte without reading the other padding bytes
pkcs7UnpadLastByte(data) ==
    IF Len(data) = 0 THEN [ok |-> FALSE, bytes |-> <<>>]
    ELSE LET padLen == data[Len(data)] IN
         IF padLen <= 0 \/ padLen > BlockSize \/ padLen > Len(data)
         THEN [ok |-> FALSE, bytes |-> <<>>]
         ELSE [ok |-> TRUE, bytes |-> SubSeq(data, 1, Len(data) - padLen)]

\* pkcs7Unpad(data, 16): [ok, bytes]
pkcs7Unpad(data) ==
    IF Len(data) = 0 THEN [ok |-> FALSE, bytes |-> <<>>]
    ELSE LET padLen == data[Len(data)] IN
         IF padLen <= 0 \/ padLen > BlockSize \/ padLen > Len(data)
         THEN [ok |-> FALSE, bytes |-> <<>>]
         ELSE IF \E i \in (Len(data) - padLen + 1)..Len(data) : data[i] # padLen
         THEN [ok |-> FALSE, bytes |-> <<>>]
         ELSE [ok |-> TRUE, bytes |-> SubSeq(data, 1, Len(data) - padLen)]

\* randomBytes(length): "" or the error for a length that is not a positive integer
randomBytesError(length) == IF length <= 0 THEN ErrRandomLen ELSE ""

\* deriveKeyPBKDF2: the argument checks made before the provider is called
deriveKeyError(password, iterations, keyLength) ==
    IF IsBlank(password) THEN ErrPassEmptyKdf
    ELSE IF iterations <= 0 THEN ErrIterations
    ELSE IF keyLength \notin validKeyLens THEN ErrKeyLen
    ELSE ""

\* deriveKeyPBKDF2: the CryptoKey.  PBKDF2-HMAC-SHA256 is taken to be injective,
\* so the key is identified by what it was derived from.
deriveKeyPBKDF2(password, salt, iterations, keyLength, algorithm) ==
    [pw |-> password, salt |-> salt, iter |-> iterations,
     klen |-> keyLength, alg |-> algorithm]

NoKey == [pw |-> <<>>, salt |-> <<>>, iter |-> 0, klen |-> 0, alg |-> ""]

-----------------------------------------------------------------------------
(* The Web Crypto cipher, as an ideal cipher.  cipherLog records what was  *)
(* sealed: [alg, key, iv, data, out].  The byte values of `out` are        *)
(* placeholders; what opens is decided by the log.                         *)

\* crypto.subtle.encrypt({name: "AES-GCM", iv, tagLength: 128}): ciphertext ++ tag
AesGcmSeal(key, iv, data) ==
    [i \in 1..(Len(data) + TAG_LEN) |->
        IF i <= Len(data) THEN (data[i] + key.klen + i) % 256
        ELSE (key.klen + Len(data) + iv[1] + i) % 256]

\* crypto.subtle.encrypt({name: "AES-CBC", iv}): the provider pads (PKCS#7) itself
AesCbcSeal(key, iv, data) ==
    LET x == pkcs7Pad(data) IN [i \in 1..Len(x) |-> (x[i] + key.klen + iv[1] + i) % 256]

-----------------------------------------------------------------------------
(* State                                                                   *)

VARIABLES
    enc,        \* the encryptText call: position, inputs, buffers, outcome
    dec,        \* the decryptText call: position, inputs, buffers, outcome
    cipherLog,  \* what the provider sealed so far
    heap,       \* the byte buffers of the calls in flight, by address
    running,    \* the calls in flight: locals, references into the heap
    caches,     \* CacheStorage of the origin: cache name -> the URLs it holds
    sw,         \* the service worker: lifecycle, fetch events handled
    pk,         \* the last call of pkcs7Pad or pkcs7Unpad: argument and result
    ui          \* the page: form fields, buttons, outputs, advanced settings

vars == << enc, dec, cipherLog, heap, running, caches, sw, pk, ui >>

NoBufs == [salt |-> <<>>, iv |-> <<>>, ptBytes |-> <<>>, padded |-> <<>>,
           all |-> <<>>, ciphertext |-> <<>>, tag |-> <<>>]

\* before encryptText is called.  opts is the option bag as passed, the next
\* five fields are the values in effect; alloc names the buffers created so
\* far, trace the calls made so far, kind is "none", "return" or "throw".
EncIdle ==
    [pc |-> "idle", plaintext |-> <<>>, password |-> <<>>,
     opts |-> [algorithm |-> "", saltLength |-> <<>>, ivLength |-> <<>>,
               iterations |-> <<>>, keyLength |-> <<>>],
     algorithm |-> "", saltLength |-> 0, ivLength |-> 0, iterations |-> 0,
     keyLength |-> 0, bufs |-> NoBufs, alloc |-> {}, key |-> NoKey,
     kind |-> "none", out |-> <<>>, err |-> "", trace |-> <<>>]

\* before decryptText is called.  joined holds the ciphertext||tag buffer of
\* every GCM attempt, in order; raw keeps what the provider's decrypt gave the
\* attempt that returned, as it was before the wipe; asked is opts.algorithm
\* as the caller passed it ("" when absent), which decryptText never reads.
DecIdle ==
    [pc |-> "idle", encString |-> <<>>, password |-> <<>>, hint |-> <<>>,
     iterations |-> 0, nparts |-> 0, algorithm |-> "", keyOrder |-> <<>>, idx |-> 0,
     bufs |-> NoBufs, alloc |-> {}, joined |-> <<>>,
     kind |-> "none", out |-> <<>>, err |-> "", trace |-> <<>>, succeededAt |-> 0,
     raw |-> <<>>, asked |-> ""]

\* no call of pkcs7Pad or pkcs7Unpad yet.  op is "none", "pad", "unpad" or
\* "unpad of pad"; data is the argument (for "unpad of pad" the argument of
\* the pkcs7Pad call), ok tells return from throw, out is what was returned
PkNone == [op |-> "none", data |-> <<>>, ok |-> TRUE, out |-> <<>>]

\* a CacheStorage without any cache
NoCaches == [name \in {} |-> {}]

\* the service worker before its install event.  left is the cache storage
\* as the activate event left it, fetched counts the fetch events handled,
\* request and response are those of the last one.
SwParsed ==
    [state |-> "parsed", left |-> NoCaches, fetched |-> 0,
     request |-> [method |-> "", mode |-> "", sameOrigin |-> FALSE, url |-> ""],
     response |-> ""]

\* the local names that hold a byte buffer, in the order of their creation
BufNames == << "salt", "iv", "ptBytes", "padded", "all", "ciphertext", "tag" >>

NoRefs == [n \in DOMAIN NoBufs |-> 0]

CallIds == {1, 2}

\* a call in flight: kind is "none", "enc" or "dec"; locals are its variables
\* with the buffers taken out, refs and jrefs the addresses of its buffers and
\* of the joined buffers of its GCM attempts; alone is the same call run on
\* its own with the same random draws and provider answers
NoCall ==
    [kind |-> "none", locals |-> EncIdle, refs |-> NoRefs, jrefs |-> <<>>,
     alone |-> EncIdle]

\* the page once initUI has run: fields empty, buttons enabled, Advanced
\* Settings at their defaults.  A number field holds << n >>, or <<>> when its
\* text is no number; invalid is the set of controls that carry aria-invalid,
\* notice the text of the footer notice.  History: submits counts the
\* submissions that passed validation, cleared tells that clearAll ran and no
\* form was submitted since, settled names the handler ("encrypt", "decrypt")
\* whose crypto call settled in the last step, "none" otherwise.
UiLoaded ==
    [plaintextInput |-> <<>>, passwordInput |-> <<>>, passwordConfirmInput |-> <<>>,
     cipherInput |-> <<>>, decryptPasswordInput |-> <<>>,
     cipherOutput |-> <<>>, plainOutput |-> <<>>,
     encryptBtnDisabled |-> FALSE, encryptFormBusy |-> FALSE,
     decryptBtnDisabled |-> FALSE, decryptFormBusy |-> FALSE,
     advAlgo |-> "AES-256-CBC", advSaltLen |-> << DEFAULTS.saltLength >>,
     advIvLen |-> << 16 >>, advIterations |-> << DEFAULTS.iterations >>,
     advKeyLen |-> << 32 >>,
     invalid |-> {}, notice |-> "",
     submits |-> 0, cleared |-> FALSE, settled |-> "none"]

Init ==
    /\ enc = EncIdle
    /\ dec = DecIdle
    /\ cipherLog = {}
    /\ heap = <<>>
    /\ running = [c \in CallIds |-> NoCall]
    /\ caches = NoCaches
    /\ sw = SwParsed
    /\ pk = PkNone
    /\ ui = UiLoaded

Throw(rec, msg) == [rec EXCEPT !.pc = "done", !.kind = "throw", !.err = msg]

\* wipeBytes applied to the named buffers of an activation
Wipe(bufs, names) ==
    [n \in DOMAIN bufs |-> IF n \in names THEN wipeBytes(bufs[n]) ELSE bufs[n]]

-----------------------------------------------------------------------------
(* encryptText                                                             *)

\* Lines 184-204: defaults, validateCipherParams, the input checks, the two
\* randomBytes draws and the call of deriveKeyPBKDF2 (up to its first await).
encryptTextBegin(plaintext, password, opts, saltFill, ivFill) ==
    LET algorithm == AlgOrDefault(opts.algorithm)
        saltLength == OrDefault(opts.saltLength, DEFAULTS.saltLength)
        ivLength == OrDefault(opts.ivLength, DEFAULTS.ivLength)
        iterations == OrDefault(opts.iterations, DEFAULTS.iterations)
        keyLength == OrDefault(opts.keyLength, DEFAULTS.keyLength)
        e0 == [EncIdle EXCEPT !.plaintext = plaintext, !.password = password,
                              !.opts = opts,
                              !.algorithm = algorithm, !.saltLength = saltLength,
                              !.ivLength = ivLength, !.iterations = iterations,
                              !.keyLength = keyLength, !.trace = << "validate" >>]
        verr == validateCipherParams(algorithm, keyLength, ivLength)
        e1 == [e0 EXCEPT !.trace = @ \o << "random" >>]
        e2 == [e1 EXCEPT !.bufs.salt = Fill(saltLength, saltFill),
                         !.alloc = @ \cup {"salt"},
                         !.trace = @ \o << "random" >>]
        e3 == [e2 EXCEPT !.bufs.iv = Fill(ivLength, ivFill),
                         !.alloc = @ \cup {"iv"},
                         !.trace = @ \o << "derive" >>]
        kerr == deriveKeyError(password, iterations, keyLength)
    IN
    IF verr # "" THEN Throw(e0, verr)
    ELSE IF IsBlank(plaintext) THEN Throw(e0, ErrPlainEmpty)
    ELSE IF IsBlank(password) THEN Throw(e0, ErrPassEmpty)
    ELSE IF randomBytesError(saltLength) # "" THEN Throw(e1, ErrRandomLen)
    ELSE IF randomBytesError(ivLength) # "" THEN Throw(e2, ErrRandomLen)
    ELSE IF kerr # "" THEN Throw(e3, kerr)
    ELSE [e3 EXCEPT !.pc = "derive"]

\* Lines 204-216 / 241-249: the key arrives; utf8Encode; for CBC pkcs7Pad and
\* the wipe of ptBytes; the provider's encrypt is called.
encryptTextDerived(e) ==
    LET key == deriveKeyPBKDF2(e.password, e.bufs.salt, e.iterations,
                               e.keyLength, e.algorithm)
        ptBytes == utf8Encode(e.plaintext)
    IN
    IF e.algorithm = "AES-GCM"
    THEN [e EXCEPT !.pc = "cipher", !.key = key,
                   !.bufs.ptBytes = ptBytes, !.alloc = @ \cup {"ptBytes"},
                   !.trace = @ \o << "encrypt" >>]
    ELSE [e EXCEPT !.pc = "cipher", !.key = key,
                   !.bufs.ptBytes = wipeBytes(ptBytes),
                   !.bufs.padded = pkcs7Pad(ptBytes),
                   !.alloc = @ \cup {"ptBytes", "padded"},
                   !.trace = @ \o << "pad", "encrypt" >>]

\* Lines 217-238: AES-GCM, the provider has answered (ok) or rejected
encryptTextGcmSettled(e, ok) ==
    IF ~ok THEN Throw([e EXCEPT !.bufs.ptBytes = wipeBytes(@)], ErrProvider)
    ELSE
    LET all == AesGcmSeal(e.key, e.bufs.iv, e.bufs.ptBytes)
        cipherLen == Len(all) - TAG_LEN
        ciphertext == SubSeq(all, 1, cipherLen)
        tag == SubSeq(all, cipherLen + 1, Len(all))
        out == Join(<< toHex(e.bufs.salt), toHex(e.bufs.iv),
                       toHex(ciphertext), toHex(tag) >>)
    IN [e EXCEPT !.pc = "done", !.kind = "return", !.out = out,
                 !.bufs.ptBytes = wipeBytes(@),
                 !.bufs.all = wipeBytes(all),
                 !.bufs.ciphertext = wipeBytes(ciphertext),
                 !.bufs.tag = wipeBytes(tag),
                 !.alloc = @ \cup {"all", "ciphertext", "tag"},
                 !.trace = @ \o << "serialize" >>]

\* AES-CBC with a second call of the provider's encrypt after a rejection
encryptTextCbcRetried(e, ok) ==
    LET e1 == IF ok THEN e ELSE [e EXCEPT !.trace = @ \o << "encrypt" >>]
        ciphertext == AesCbcSeal(e.key, e.bufs.iv, e.bufs.padded)
        out == Join(<< toHex(e.bufs.salt), toHex(e.bufs.iv), toHex(ciphertext) >>)
    IN [e1 EXCEPT !.pc = "done", !.kind = "return", !.out = out,
                  !.bufs.padded = wipeBytes(@),
                  !.bufs.ciphertext = wipeBytes(ciphertext),
                  !.alloc = @ \cup {"ciphertext"},
                  !.trace = @ \o << "serialize" >>]

\* Lines 245-258: AES-CBC, the provider has answered (ok) or rejected
encryptTextCbcSettled(e, ok) ==
    IF ~ok THEN Throw(e, ErrProvider)
    ELSE
    LET ciphertext == AesCbcSeal(e.key, e.bufs.iv, e.bufs.padded)
        out == Join(<< toHex(e.bufs.salt), toHex(e.bufs.iv), toHex(ciphertext) >>)
    IN [e EXCEPT !.pc = "done", !.kind = "return", !.out = out,
                 !.bufs.padded = wipeBytes(@),
                 !.bufs.ciphertext = wipeBytes(ciphertext),
                 !.alloc = @ \cup {"ciphertext"},
                 !.trace = @ \o << "serialize" >>]

\* what the provider sealed in a successful encrypt
Sealed(e) ==
    IF e.algorithm = "AES-GCM"
    THEN [alg |-> "AES-GCM", key |-> e.key, iv |-> e.bufs.iv, data |-> e.bufs.ptBytes,
          out |-> AesGcmSeal(e.key, e.bufs.iv, e.bufs.ptBytes)]
    ELSE [alg |-> "AES-CBC", key |-> e.key, iv |-> e.bufs.iv, data |-> e.bufs.padded,
          out |-> AesCbcSeal(e.key, e.bufs.iv, e.bufs.padded)]

-----------------------------------------------------------------------------
(* The provider's decrypt                                                  *)

Rejected == [ok |-> FALSE, bytes |-> <<>>]

\* crypto.subtle.decrypt({name: "AES-GCM", iv, tagLength: 128}, key, joined):
\* opens exactly what was sealed under this key and IV, else OperationError
AesGcmOpen(log, key, iv, joined) ==
    IF \E s \in log : s.alg = "AES-GCM" /\ s.key = key /\ s.iv = iv /\ s.out = joined
    THEN LET s == CHOOSE s \in log :
                      s.alg = "AES-GCM" /\ s.key = key /\ s.iv = iv /\ s.out = joined
         IN {[ok |-> TRUE, bytes |-> s.data]}
    ELSE {Rejected}

\* bytes that AES-CBC may produce from a ciphertext it did not seal under this
\* key: whatever is left when the last block happens to end in valid padding.
\* Two such results stand for all: one that is text ("?"), one that is no
\* UTF-8 and itself ends in the padding byte 01.
Unrelated(ciphertext) ==
    { Fill(Len(ciphertext) - 1, 63),
      Append(Fill(Len(ciphertext) - 2, 255), 1) }

\* crypto.subtle.decrypt({name: "AES-CBC", iv}, key, ciphertext): the provider
\* removes its own PKCS#7 padding and rejects when that padding is invalid.
\* The set holds every outcome the call may have.
AesCbcOpen(log, key, iv, ciphertext) ==
    IF Len(ciphertext) = 0 \/ Len(ciphertext) % BlockSize # 0 \/ Len(iv) # 16
    THEN {Rejected}
    ELSE IF \E s \in log : s.alg = "AES-CBC" /\ s.key = key /\ s.iv = iv
                            /\ s.out = ciphertext
    THEN LET s == CHOOSE s \in log : s.alg = "AES-CBC" /\ s.key = key /\ s.iv = iv
                                      /\ s.out = ciphertext
         IN {[ok |-> TRUE, bytes |-> s.data]}
    ELSE {Rejected} \cup {[ok |-> TRUE, bytes |-> g] : g \in Unrelated(ciphertext)}

-----------------------------------------------------------------------------
(* decryptText                                                             *)

\* the hint put before the three lengths without taking it out of them
keyOrderHintFirst(hint) ==
    IF hint = <<>> THEN << 32, 24, 16 >> ELSE << hint[1] >> \o << 32, 24, 16 >>

\* Lines 298-300: the candidate key lengths, the hint first when it is an integer
keyOrderOf(hint) ==
    IF hint = <<>> THEN << 32, 24, 16 >>
    ELSE << hint[1] >> \o SelectSeq(<< 32, 24, 16 >>, LAMBDA k : k # hint[1])

\* decryptText with the algorithm the caller names in opts.algorithm, and the
\* field count only when the caller names none
decryptTextBeginAsAsked(encString, password, opts) ==
    LET iterations == IF opts.iterations # <<>> THEN opts.iterations[1]
                      ELSE DEFAULTS.iterations
        parts == Split(encString)
        d0 == [DecIdle EXCEPT !.encString = encString, !.password = password,
                              !.asked = opts.algorithm,
                              !.hint = opts.keyLength, !.iterations = iterations,
                              !.nparts = Len(parts)]
        saltR == fromHex(Trim(parts[1]))
        ivR == fromHex(Trim(parts[2]))
        algorithm == IF opts.algorithm # "" THEN opts.algorithm
                     ELSE IF Len(parts) = 4 THEN "AES-GCM" ELSE "AES-CBC"
        keyOrder == keyOrderOf(opts.keyLength)
        d1 == [d0 EXCEPT !.bufs.salt = saltR.bytes, !.alloc = @ \cup {"salt"}]
        d2 == [d1 EXCEPT !.bufs.iv = ivR.bytes, !.alloc = @ \cup {"iv"},
                         !.algorithm = algorithm, !.keyOrder = keyOrder,
                         !.trace = << "validate" >>]
        verr == validateCipherParams(algorithm, keyOrder[1], Len(ivR.bytes))
        ctR == fromHex(Trim(parts[3]))
        d3 == [d2 EXCEPT !.bufs.ciphertext = ctR.bytes, !.alloc = @ \cup {"ciphertext"}]
        tagR == fromHex(Trim(parts[4]))
        d4 == [d3 EXCEPT !.bufs.tag = tagR.bytes, !.alloc = @ \cup {"tag"}]
    IN
    IF Trim(encString) = <<>> THEN Throw(d0, ErrEncEmpty)
    ELSE IF IsBlank(password) THEN Throw(d0, ErrPassEmpty)
    ELSE IF Len(parts) # 3 /\ Len(parts) # 4 THEN Throw(d0, ErrFormat)
    ELSE IF ~saltR.ok THEN Throw(d0, saltR.err)
    ELSE IF ~ivR.ok THEN Throw(d1, ivR.err)
    ELSE IF verr # "" THEN Throw(d2, verr)
    ELSE IF ~ctR.ok THEN Throw(d2, ctR.err)
    ELSE IF algorithm = "AES-CBC" THEN [d3 EXCEPT !.pc = "loop", !.idx = 1]
    ELSE IF Len(parts) # 4 THEN Throw(d3, "Hex input must be a string")
    ELSE IF ~tagR.ok THEN Throw(d3, tagR.err)
    ELSE [d4 EXCEPT !.pc = "loop", !.idx = 1]

\* Lines 274-308: the input checks, split, fromHex of salt and IV, the algorithm
\* from the field count, the candidate list, validateCipherParams with the first
\* candidate, fromHex of ciphertext and tag.
decryptTextBegin(encString, password, opts) ==
    LET iterations == IF opts.iterations # <<>> THEN opts.iterations[1]
                      ELSE DEFAULTS.iterations
        parts == Split(encString)
        d0 == [DecIdle EXCEPT !.encString = encString, !.password = password,
                              !.asked = opts.algorithm,
                              !.hint = opts.keyLength, !.iterations = iterations,
                              !.nparts = Len(parts)]
        saltR == fromHex(Trim(parts[1]))
        ivR == fromHex(Trim(parts[2]))
        algorithm == IF Len(parts) = 4 THEN "AES-GCM" ELSE "AES-CBC"
        keyOrder == keyOrderOf(opts.keyLength)
        d1 == [d0 EXCEPT !.bufs.salt = saltR.bytes, !.alloc = @ \cup {"salt"}]
        d2 == [d1 EXCEPT !.bufs.iv = ivR.bytes, !.alloc = @ \cup {"iv"},
                         !.algorithm = algorithm, !.keyOrder = keyOrder,
                         !.trace = << "validate" >>]
        verr == validateCipherParams(algorithm, keyOrder[1], Len(ivR.bytes))
        ctR == fromHex(Trim(parts[3]))
        d3 == [d2 EXCEPT !.bufs.ciphertext = ctR.bytes, !.alloc = @ \cup {"ciphertext"}]
        tagR == fromHex(Trim(parts[4]))
        d4 == [d3 EXCEPT !.bufs.tag = tagR.bytes, !.alloc = @ \cup {"tag"}]
    IN
    IF Trim(encString) = <<>> THEN Throw(d0, ErrEncEmpty)
    ELSE IF IsBlank(password) THEN Throw(d0, ErrPassEmpty)
    ELSE IF Len(parts) # 3 /\ Len(parts) # 4 THEN Throw(d0, ErrFormat)
    ELSE IF ~saltR.ok THEN Throw(d0, saltR.err)
    ELSE IF ~ivR.ok THEN Throw(d1, ivR.err)
    ELSE IF verr # "" THEN Throw(d2, verr)
    ELSE IF ~ctR.ok THEN Throw(d2, ctR.err)
    ELSE IF algorithm = "AES-CBC" THEN [d3 EXCEPT !.pc = "loop", !.idx = 1]
    ELSE IF ~tagR.ok THEN Throw(d3, tagR.err)
    ELSE [d4 EXCEPT !.pc = "loop", !.idx = 1]

\* the candidate loop left at the first failure instead of continued
decryptTextNoRetry(d) ==
    Throw([d EXCEPT !.bufs = Wipe(@, {"salt", "iv", "ciphertext", "tag"})],
          ErrDecryptFailed)

\* the input buffers wiped after every failed candidate, not only the last
decryptTextContinueWiped(d) ==
    LET wiped == [d EXCEPT !.bufs = Wipe(@, {"salt", "iv", "ciphertext", "tag"})]
    IN IF d.idx < Len(d.keyOrder) THEN [wiped EXCEPT !.idx = @ + 1]
       ELSE Throw(wiped, ErrDecryptFailed)

\* Lines 383-396: a candidate failed: the next one, or after the last one the
\* wipes of salt, iv, ciphertext and tag and the generic error
decryptTextContinue(d) ==
    IF d.idx < Len(d.keyOrder) THEN [d EXCEPT !.idx = @ + 1]
    ELSE Throw([d EXCEPT !.bufs = Wipe(@, {"salt", "iv", "ciphertext", "tag"})],
               ErrDecryptFailed)

\* one AES-GCM attempt whose rejection by the provider leaves the loop and
\* surfaces as the error of an OperationError
decryptTextGcmSurfacing(d, key, opened) ==
    LET d1 == [d EXCEPT !.trace = @ \o << "decrypt" >>,
                        !.joined = Append(@, d.bufs.ciphertext \o d.bufs.tag)]
    IN
    IF opened.ok
    THEN [d1 EXCEPT !.pc = "done", !.kind = "return",
                    !.out = utf8Decode(opened.bytes), !.raw = opened.bytes,
                    !.bufs = Wipe([@ EXCEPT !.ptBytes = opened.bytes],
                                  {"ptBytes", "salt", "iv", "ciphertext", "tag"}),
                    !.alloc = @ \cup {"ptBytes"},
                    !.joined[Len(d1.joined)] = wipeBytes(@),
                    !.succeededAt = d.idx]
    ELSE Throw(d1, ErrOperation)

\* Lines 322-343: one AES-GCM attempt with the derived key
decryptTextGcm(d, key, opened) ==
    LET joined == d.bufs.ciphertext \o d.bufs.tag
        d1 == [d EXCEPT !.joined = Append(@, joined),
                        !.trace = @ \o << "decrypt" >>]
    IN
    IF ~opened.ok THEN decryptTextContinue(d1)
    ELSE [d1 EXCEPT !.pc = "done", !.kind = "return",
                    !.out = utf8Decode(opened.bytes), !.raw = opened.bytes,
                    !.bufs = Wipe([@ EXCEPT !.ptBytes = opened.bytes],
                                  {"ptBytes", "salt", "iv", "ciphertext", "tag"}),
                    !.alloc = @ \cup {"ptBytes"},
                    !.joined[Len(d1.joined)] = wipeBytes(@),
                    !.succeededAt = d.idx]

\* Lines 345-381: one AES-CBC attempt with the derived key.  The raw bytes are
\* decoded and returned; when the provider rejects, the same call is made again
\* and pkcs7Unpad is applied to its result.
decryptTextCbc(d, key, opened) ==
    LET d1 == [d EXCEPT !.trace = @ \o << "decrypt" >>]
        d2 == [d1 EXCEPT !.trace = @ \o << "decrypt" >>]
    IN
    IF opened.ok
    THEN [d1 EXCEPT !.pc = "done", !.kind = "return",
                    !.out = utf8Decode(opened.bytes), !.raw = opened.bytes,
                    !.bufs = Wipe([@ EXCEPT !.ptBytes = opened.bytes],
                                  {"ptBytes", "salt", "iv", "ciphertext"}),
                    !.alloc = @ \cup {"ptBytes"},
                    !.succeededAt = d.idx]
    ELSE \* the second call has the same arguments, hence the same outcome
         decryptTextContinue(d2)

\* Lines 310-387: one pass of the candidate loop.  `opened` is the outcome of
\* the provider's decrypt for this candidate's key.
decryptTextAttempt(d, opened) ==
    LET klen == d.keyOrder[d.idx]
        d1 == [d EXCEPT !.trace = @ \o << "validate" >>]
        verr == validateCipherParams(d.algorithm, klen, Len(d.bufs.iv))
        d2 == [d1 EXCEPT !.trace = @ \o << "derive" >>]
        kerr == deriveKeyError(d.password, d.iterations, klen)
        key == deriveKeyPBKDF2(d.password, d.bufs.salt, d.iterations, klen, d.algorithm)
    IN
    IF verr # "" THEN decryptTextContinue(d1)
    ELSE IF kerr # "" THEN decryptTextContinue(d2)
    ELSE IF d.algorithm = "AES-GCM" THEN decryptTextGcm(d2, key, opened)
    ELSE decryptTextCbc(d2, key, opened)

\* the outcomes the provider may give the current candidate
Opened(d, log) ==
    LET klen == d.keyOrder[d.idx]
        key == deriveKeyPBKDF2(d.password, d.bufs.salt, d.iterations, klen, d.algorithm)
    IN IF d.algorithm = "AES-GCM"
       THEN AesGcmOpen(log, key, d.bufs.iv, d.bufs.ciphertext \o d.bufs.tag)
       ELSE AesCbcOpen(log, key, d.bufs.iv, d.bufs.ciphertext)

-----------------------------------------------------------------------------
(* Inputs                                                                  *)

\* number of leading bytes of a field whose bits are inverted one at a time
TamperBytes == 2

\* the bits inverted in such a byte
TamperBits == {0, 7}

\* values a randomBytes draw fills its buffer with
RandomFills == {9, 171}

Opts(a, s, i, n, k) ==
    [algorithm |-> a, saltLength |-> s, ivLength |-> i, iterations |-> n, keyLength |-> k]

\* " ", "a", a byte order mark before "a", one whole block of "a"
Plaintexts == { << 32 >>, << 97 >>, << ByteOrderMark, 97 >>, Fill(16, 97) }

\* "", "pw"
EncPasswords == { <<>>, << 112, 119 >> }

\* "", "pw", "pW"
DecPasswords == { <<>>, << 112, 119 >>, << 112, 87 >> }

\* option bags of the calls that are later decrypted
SessionOpts ==
    { Opts(a, << 16 >>, i, <<>>, k) :
        a \in {"AES-CBC", "AES-GCM"}, i \in {<<>>, << 12 >>},
        k \in {<<>>, << 16 >>, << 24 >>, << 20 >>} }

\* option bags of the calls whose parameters are explored
WideOpts ==
    { Opts(a, s, i, n, k) :
        a \in {"", "AES-CBC", "AES-GCM", "AES-CTR"},
        s \in {<<>>, << 0 >>, << -1 >>, << 8 >>, << 15 >>, << 16 >>, << 64 >>, << 65 >>},
        i \in {<<>>, << 0 >>, << 12 >>, << 16 >>, << 8 >>},
        n \in {<<>>, << -5 >>, << 1 >>, << 9999 >>, << 10000 >>, << 1000000 >>, << 1000001 >>},
        k \in {<<>>, << 0 >>, << 16 >>, << 24 >>, << 32 >>, << 20 >>} }

DecOpts ==
    { [iterations |-> n, keyLength |-> k, algorithm |-> ""] :
        n \in {<<>>, << 5 >>, << 0 >>},
        k \in {<<>>, << 16 >>, << 24 >>, << 32 >>, << 20 >>} }
    \cup { [iterations |-> <<>>, keyLength |-> <<>>, algorithm |-> a] :
             a \in {"AES-CBC", "AES-GCM"} }

\* the field with bit `bit` of its byte `pos` inverted
TamperField(hex, pos, bit) ==
    LET bytes == fromHex(hex).bytes
    IN toHex([bytes EXCEPT ![pos] = FlipBit(@, bit)])

\* the envelope with one bit of its ciphertext or of its tag inverted
Tampered(env) ==
    LET parts == Split(env) IN
    UNION { { Join([parts EXCEPT ![f] = TamperField(@, pos, bit)]) :
                pos \in {q \in 1..TamperBytes : 2 * q <= Len(parts[f])},
                bit \in TamperBits } :
            f \in 3..Len(parts) }

\* structurally damaged envelopes: a field dropped or added, a field of odd
\* length, a field with a character that is no hex digit
Malformed(env) ==
    LET parts == Split(env) IN
    { Join(SubSeq(parts, 1, Len(parts) - 1)), Join(Append(parts, << "0", "0" >>)) }
    \cup { Join([parts EXCEPT ![f] = Tail(@)]) : f \in 1..Len(parts) }
    \cup { Join([parts EXCEPT ![f] = [@ EXCEPT ![1] = "g"]]) : f \in 1..Len(parts) }

\* the same bytes written differently: upper-case digits, blanks around a field
Respelled(env) ==
    { [j \in 1..Len(env) |->
          IF \E d \in 1..16 : env[j] = HexDigits[d]
          THEN UpperHexDigits[CHOOSE d \in 1..16 : env[j] = HexDigits[d]]
          ELSE env[j]],
      << " " >> \o env \o << " " >> }

FixedInputs == { <<>>, << " " >>, << "0", "0" >> }

\* what decryptText is given once encryptText has returned an envelope
DecInputs ==
    IF enc.kind = "return"
    THEN FixedInputs \cup {enc.out} \cup Tampered(enc.out) \cup Malformed(enc.out)
                     \cup Respelled(enc.out)
    ELSE {}

-----------------------------------------------------------------------------
(* Actions                                                                 *)

EncStart(optsSet) ==
    /\ enc.pc = "idle"
    /\ \E plaintext \in Plaintexts, password \in EncPasswords, opts \in optsSet,
          saltFill \in RandomFills, ivFill \in RandomFills :
          enc' = encryptTextBegin(plaintext, password, opts, saltFill, ivFill)
    /\ UNCHANGED << dec, cipherLog, heap, running, caches, sw, pk, ui >>

EncDerived ==
    /\ enc.pc = "derive"
    /\ enc' = encryptTextDerived(enc)
    /\ UNCHANGED << dec, cipherLog, heap, running, caches, sw, pk, ui >>

EncSettled ==
    /\ enc.pc = "cipher"
    /\ \E ok \in BOOLEAN :
          /\ enc' = IF enc.algorithm = "AES-GCM" THEN encryptTextGcmSettled(enc, ok)
                    ELSE encryptTextCbcSettled(enc, ok)
          /\ cipherLog' = IF ok THEN cipherLog \cup {Sealed(enc)} ELSE cipherLog
    /\ UNCHANGED << dec, heap, running, caches, sw, pk, ui >>

DecStart ==
    /\ enc.pc = "done"
    /\ dec.pc = "idle"
    /\ \E encString \in DecInputs, password \in DecPasswords, opts \in DecOpts :
          dec' = decryptTextBegin(encString, password, opts)
    /\ UNCHANGED << enc, cipherLog, heap, running, caches, sw, pk, ui >>

DecAttempt ==
    /\ dec.pc = "loop"
    /\ \E opened \in Opened(dec, cipherLog) : dec' = decryptTextAttempt(dec, opened)
    /\ UNCHANGED << enc, cipherLog, heap, running, caches, sw, pk, ui >>

\* an encryptText call followed by a decryptText call
Next ==
    \/ EncStart(SessionOpts)
    \/ EncDerived
    \/ EncSettled
    \/ DecStart
    \/ DecAttempt

Spec == Init /\ [][Next]_vars

\* encryptText alone, over the wide range of parameters
NextEnc ==
    \/ EncStart(WideOpts)
    \/ EncDerived
    \/ EncSettled

SpecEnc == Init /\ [][NextEnc]_vars

-----------------------------------------------------------------------------
(* Two calls in flight.  Every local that holds a Uint8Array is a reference *)
(* into one heap, as in the engine; a call runs from one await to the next. *)

\* the buffer for `name` taken from a pool of one buffer per local name,
\* shared by all calls
PooledBuffer(h, fresh, name) ==
    CHOOSE k \in 1..(Len(BufNames) + 1) : Append(BufNames, "joined")[k] = name

\* new Uint8Array(..): the address of the buffer created for the local `name`
\* by a step that creates the buffers `fresh`, in this order
NewBuffer(h, fresh, name) ==
    Len(h) + (CHOOSE k \in 1..Len(fresh) : fresh[k] = name)

\* the call as its code sees it: its locals, its buffers read from the heap
View(call, h) ==
    LET bufs == [n \in DOMAIN NoBufs |->
                    IF call.refs[n] = 0 THEN <<>> ELSE h[call.refs[n]]]
    IN IF call.kind = "dec"
       THEN [call.locals EXCEPT !.bufs = bufs,
                                !.joined = [j \in 1..Len(call.jrefs) |-> h[call.jrefs[j]]]]
       ELSE [call.locals EXCEPT !.bufs = bufs]

\* the call and the heap once a step has left the call in `rec`: buffers the
\* step created get an address, and what the step wrote goes to the heap
Stored(call, h, rec) ==
    LET freshNames == SelectSeq(BufNames, LAMBDA n : n \in rec.alloc /\ call.refs[n] = 0)
        joins == IF call.kind = "dec" THEN rec.joined ELSE <<>>
        fresh == IF Len(joins) > Len(call.jrefs) THEN Append(freshNames, "joined")
                 ELSE freshNames
        refs == [n \in DOMAIN NoBufs |->
                    IF call.refs[n] # 0 THEN call.refs[n]
                    ELSE IF n \in rec.alloc THEN NewBuffer(h, fresh, n) ELSE 0]
        jrefs == IF Len(joins) > Len(call.jrefs)
                 THEN Append(call.jrefs, NewBuffer(h, fresh, "joined"))
                 ELSE call.jrefs
        used == {refs[n] : n \in DOMAIN NoBufs} \cup {jrefs[j] : j \in 1..Len(jrefs)}
        top == CHOOSE a \in used \cup {Len(h)} : \A b \in used \cup {Len(h)} : b <= a
        written(a) ==
            IF \E j \in 1..Len(jrefs) : jrefs[j] = a
            THEN joins[CHOOSE j \in 1..Len(jrefs) :
                          jrefs[j] = a /\ \A i \in 1..Len(jrefs) : jrefs[i] = a => i <= j]
            ELSE IF \E k \in 1..Len(BufNames) : refs[BufNames[k]] = a
            THEN rec.bufs[BufNames[CHOOSE k \in 1..Len(BufNames) :
                    refs[BufNames[k]] = a
                    /\ \A i \in 1..Len(BufNames) : refs[BufNames[i]] = a => i <= k]]
            ELSE IF a <= Len(h) THEN h[a] ELSE <<>>
        locals == IF call.kind = "dec"
                  THEN [rec EXCEPT !.bufs = NoBufs, !.joined = <<>>]
                  ELSE [rec EXCEPT !.bufs = NoBufs]
    IN [call |-> [call EXCEPT !.locals = locals, !.refs = refs, !.jrefs = jrefs],
        heap |-> [a \in 1..top |-> written(a)]]

\* "a", "pw", "pW"
ParPlaintexts == { << 97 >> }
ParPasswords == { << 112, 119 >> }
ParDecPasswords == { << 112, 119 >>, << 112, 87 >> }

ParOpts ==
    { Opts("AES-CBC", << 16 >>, <<>>, <<>>, << 16 >>),
      Opts("AES-GCM", << 16 >>, << 12 >>, <<>>, << 16 >>),
      Opts("AES-GCM", << 16 >>, <<>>, <<>>, << 16 >>) }

\* an encryptText call that completed before the two calls start
PriorCall(algorithm) ==
    encryptTextDerived(
        encryptTextBegin(<< 97 >>, << 112, 119 >>,
                         Opts(algorithm, << 16 >>,
                              IF algorithm = "AES-GCM" THEN << 12 >> ELSE <<>>,
                              <<>>, << 16 >>),
                         171, 9))

PriorEnvelope(algorithm) ==
    IF algorithm = "AES-GCM" THEN encryptTextGcmSettled(PriorCall(algorithm), TRUE).out
    ELSE encryptTextCbcSettled(PriorCall(algorithm), TRUE).out

\* the envelopes of the earlier calls, as returned and with the lowest bit of
\* the first ciphertext byte inverted
ParEnvelopes ==
    UNION { { PriorEnvelope(a),
              Join([Split(PriorEnvelope(a)) EXCEPT ![3] = TamperField(@, 1, 0)]) } :
            a \in {"AES-CBC", "AES-GCM"} }

InitPar ==
    /\ enc = EncIdle
    /\ dec = DecIdle
    /\ cipherLog = {Sealed(PriorCall(a)) : a \in {"AES-CBC", "AES-GCM"}}
    /\ heap = <<>>
    /\ running = [c \in CallIds |-> NoCall]
    /\ caches = NoCaches
    /\ sw = SwParsed
    /\ pk = PkNone
    /\ ui = UiLoaded

\* the call c is left in `rec` by a step that leaves the same call, run alone, in `alone`
Advance(c, call, rec, alone) ==
    LET st == Stored(call, heap, rec) IN
    /\ heap' = st.heap
    /\ running' = [running EXCEPT ![c] = [st.call EXCEPT !.alone = alone]]

ParEncStart(c) ==
    /\ running[c].kind = "none"
    /\ \E plaintext \in ParPlaintexts, password \in ParPasswords, opts \in ParOpts,
          saltFill \in RandomFills, ivFill \in RandomFills :
          LET rec == encryptTextBegin(plaintext, password, opts, saltFill, ivFill)
          IN Advance(c, [NoCall EXCEPT !.kind = "enc"], rec, rec)
    /\ UNCHANGED << enc, dec, cipherLog, caches, sw, pk, ui >>

ParEncDerived(c) ==
    /\ running[c].kind = "enc"
    /\ running[c].locals.pc = "derive"
    /\ Advance(c, running[c], encryptTextDerived(View(running[c], heap)),
               encryptTextDerived(running[c].alone))
    /\ UNCHANGED << enc, dec, cipherLog, caches, sw, pk, ui >>

ParEncSettled(c) ==
    /\ running[c].kind = "enc"
    /\ running[c].locals.pc = "cipher"
    /\ LET view == View(running[c], heap)
           settled(e, ok) == IF e.algorithm = "AES-GCM" THEN encryptTextGcmSettled(e, ok)
                             ELSE encryptTextCbcSettled(e, ok)
       IN \E ok \in BOOLEAN :
             /\ Advance(c, running[c], settled(view, ok), settled(running[c].alone, ok))
             /\ cipherLog' = IF ok THEN cipherLog \cup {Sealed(view)} ELSE cipherLog
    /\ UNCHANGED << enc, dec, caches, sw, pk, ui >>

ParDecStart(c) ==
    /\ running[c].kind = "none"
    /\ \E encString \in ParEnvelopes, password \in ParDecPasswords :
          LET rec == decryptTextBegin(encString, password,
                                      [iterations |-> <<>>, keyLength |-> <<>>,
                                       algorithm |-> ""])
          IN Advance(c, [NoCall EXCEPT !.kind = "dec"], rec, rec)
    /\ UNCHANGED << enc, dec, cipherLog, caches, sw, pk, ui >>

ParDecAttempt(c) ==
    /\ running[c].kind = "dec"
    /\ running[c].locals.pc = "loop"
    /\ LET view == View(running[c], heap)
       IN \E opened \in Opened(view, cipherLog) :
             Advance(c, running[c], decryptTextAttempt(view, opened),
                     decryptTextAttempt(running[c].alone, opened))
    /\ UNCHANGED << enc, dec, cipherLog, caches, sw, pk, ui >>

\* two calls, each an encryptText or a decryptText, interleaved at their awaits
NextPar ==
    \E c \in CallIds :
        \/ ParEncStart(c)
        \/ ParEncDerived(c)
        \/ ParEncSettled(c)
        \/ ParDecStart(c)
        \/ ParDecAttempt(c)

SpecPar == InitPar /\ [][NextPar]_vars

-----------------------------------------------------------------------------
(* sw.js: the service worker                                               *)

CACHE_VERSION == "v5"
CACHE_NAME == "crcrypt-web-" \o CACHE_VERSION

CORE_ASSETS ==
    {"index.html", "styles.css", "manifest.webmanifest",
     "src/ui.js", "src/crypto.js", "src/utils/hex.js"}

\* the cache a former version of the worker filled
OldCaches == [name \in {"crcrypt-web-v4"} |-> {"index.html", "src/old.js"}]

\* number of fetch events followed
MaxFetches == 3

Requests ==
    [method : {"GET", "POST"}, mode : {"navigate", "cors"}, sameOrigin : BOOLEAN,
     url : {"index.html", "styles.css", "api/data"}]

\* fetch(req): a response with an ok status, with another status, a rejection
NetworkOutcomes == {"ok", "status", "error"}

\* caches.match(url): some cache holds the URL
Matches(cs, url) == \E name \in DOMAIN cs : url \in cs[name]

\* swInstall: caches.open(CACHE_NAME) creates the cache, cache.addAll adds all
\* core assets or none; a failure of either is swallowed by the catch
swInstall(cs, opened, added) ==
    IF ~opened THEN cs
    ELSE [name \in DOMAIN cs \cup {CACHE_NAME} |->
             IF name # CACHE_NAME THEN cs[name]
             ELSE (IF name \in DOMAIN cs THEN cs[name] ELSE {})
                  \cup (IF added THEN CORE_ASSETS ELSE {})]

\* swActivate: every cache with another name is deleted
swActivate(cs) == [name \in DOMAIN cs \cap {CACHE_NAME} |-> cs[name]]

\* a fetch handler that keeps what the network answered for a same-origin asset
swFetchRuntimeCaching(cs, req, net) ==
    IF req.method # "GET" THEN [caches |-> cs, response |-> "unhandled"]
    ELSE IF req.mode = "navigate"
    THEN [caches |-> cs,
          response |-> IF net = "ok" THEN "network"
                       ELSE IF Matches(cs, "index.html") THEN "cached index.html"
                       ELSE "offline 503"]
    ELSE IF req.sameOrigin
    THEN IF Matches(cs, req.url) THEN [caches |-> cs, response |-> "cached"]
         ELSE IF net = "error" THEN [caches |-> cs, response |-> "network error"]
         ELSE [caches |-> [name \in DOMAIN cs \cup {CACHE_NAME} |->
                              IF name # CACHE_NAME THEN cs[name]
                              ELSE (IF name \in DOMAIN cs THEN cs[name] ELSE {})
                                   \cup {req.url}],
               response |-> "network"]
    ELSE [caches |-> cs, response |-> "unhandled"]

\* swFetch: the cache storage after the event and the response given.
\* Other than GET: not handled.  Navigation: the network's answer when ok,
\* else the cached index.html, else the 503 page.  Same-origin asset: the
\* cached answer if any, else the network's.  Anything else: not handled.
swFetch(cs, req, net) ==
    IF req.method # "GET" THEN [caches |-> cs, response |-> "unhandled"]
    ELSE IF req.mode = "navigate"
    THEN [caches |-> cs,
          response |-> IF net = "ok" THEN "network"
                       ELSE IF Matches(cs, "index.html") THEN "cached index.html"
                       ELSE "offline 503"]
    ELSE IF req.sameOrigin
    THEN [caches |-> cs,
          response |-> IF Matches(cs, req.url) THEN "cached"
                       ELSE IF net = "error" THEN "network error"
                       ELSE "network"]
    ELSE [caches |-> cs, response |-> "unhandled"]

\* the origin has no cache yet, or the cache of the former version
InitSW ==
    /\ enc = EncIdle
    /\ dec = DecIdle
    /\ cipherLog = {}
    /\ heap = <<>>
    /\ running = [c \in CallIds |-> NoCall]
    /\ caches \in {NoCaches, OldCaches}
    /\ sw = SwParsed
    /\ pk = PkNone
    /\ ui = UiLoaded

SwInstall ==
    /\ sw.state = "parsed"
    /\ \E opened \in BOOLEAN, added \in BOOLEAN :
          caches' = swInstall(caches, opened, added)
    /\ sw' = [sw EXCEPT !.state = "installed"]
    /\ UNCHANGED << enc, dec, cipherLog, heap, running, pk, ui >>

SwActivate ==
    /\ sw.state = "installed"
    /\ caches' = swActivate(caches)
    /\ sw' = [sw EXCEPT !.state = "activated", !.left = swActivate(caches)]
    /\ UNCHANGED << enc, dec, cipherLog, heap, running, pk, ui >>

\* fetch events reach the worker once it is activated
SwFetch ==
    /\ sw.state = "activated"
    /\ sw.fetched < MaxFetches
    /\ \E req \in Requests, net \in NetworkOutcomes :
          LET handled == swFetch(caches, req, net)
          IN /\ caches' = handled.caches
             /\ sw' = [sw EXCEPT !.fetched = @ + 1, !.request = req,
                                 !.response = handled.response]
    /\ UNCHANGED << enc, dec, cipherLog, heap, running, pk, ui >>

NextSW ==
    \/ SwInstall
    \/ SwActivate
    \/ SwFetch

SpecSW == InitSW /\ [][NextSW]_vars

-----------------------------------------------------------------------------
(* pkcs7Pad and pkcs7Unpad on their own                                    *)

\* longest run of equal bytes given to the two functions
MaxRun == 33

\* byte values of the arguments: 0, small pad lengths, the block size, one
\* more than the block size, a letter, the largest byte
PadBytes == {0, 1, 2, 3, 16, 17, 97, 255}

\* every sequence of up to 2 such bytes, and runs of one byte of every length
\* up to MaxRun, as they are and with one more byte at the end
PadArguments ==
    {<<>>} \cup { << a >> : a \in PadBytes } \cup { << a, b >> : a \in PadBytes, b \in PadBytes }
    \cup { Fill(n, v) : n \in 3..MaxRun, v \in {2, 16, 97} }
    \cup { Append(Fill(n, v), w) : n \in 2..MaxRun, v \in {2, 97}, w \in {0, 3, 16, 17} }

PkPad ==
    /\ pk.op = "none"
    /\ \E data \in PadArguments :
          pk' = [op |-> "pad", data |-> data, ok |-> TRUE, out |-> pkcs7Pad(data)]
    /\ UNCHANGED << enc, dec, cipherLog, heap, running, caches, sw, ui >>

PkUnpad ==
    /\ pk.op = "none"
    /\ \E data \in PadArguments :
          pk' = [op |-> "unpad", data |-> data, ok |-> pkcs7Unpad(data).ok,
                 out |-> pkcs7Unpad(data).bytes]
    /\ UNCHANGED << enc, dec, cipherLog, heap, running, caches, sw, ui >>

\* pkcs7Unpad applied to what pkcs7Pad just returned
PkUnpadOfPad ==
    /\ pk.op = "pad"
    /\ pk' = [op |-> "unpad of pad", data |-> pk.data, ok |-> pkcs7Unpad(pk.out).ok,
              out |-> pkcs7Unpad(pk.out).bytes]
    /\ UNCHANGED << enc, dec, cipherLog, heap, running, caches, sw, ui >>

NextPad ==
    \/ PkPad
    \/ PkUnpad
    \/ PkUnpadOfPad

SpecPad == Init /\ [][NextPad]_vars

-----------------------------------------------------------------------------
(* src/ui.js: the two submit handlers and Clear                             *)

\* submissions that pass validation, over the life of the page
MaxSubmits == 2

\* algo.includes("GCM")
IsGcmName(algo) == algo \in {"AES-256-GCM", "AES-192-GCM", "AES-128-GCM"}

\* text.trim() of a string of code points
sanitizeInput(text) ==
    LET kept == {i \in 1..Len(text) : text[i] \notin WhiteSpace} IN
    IF kept = {} THEN <<>>
    ELSE SubSeq(text, CHOOSE i \in kept : \A j \in kept : i <= j,
                      CHOOSE i \in kept : \A j \in kept : j <= i)

\* Number.parseInt of a number field, or the default when that is no
\* positive number
FieldOrDefault(field, default) ==
    IF field = <<>> THEN default ELSE IF field[1] > 0 THEN field[1] ELSE default

readAdvancedSettings(u) ==
    [saltLength |-> FieldOrDefault(u.advSaltLen, DEFAULTS.saltLength),
     ivLength |-> FieldOrDefault(u.advIvLen, DEFAULTS.ivLength),
     iterations |-> FieldOrDefault(u.advIterations, DEFAULTS.iterations),
     keyLength |-> FieldOrDefault(u.advKeyLen, DEFAULTS.keyLength),
     algorithm |-> IF IsGcmName(u.advAlgo) THEN "AES-GCM" ELSE "AES-CBC",
     cliAlgorithm |-> u.advAlgo]

ErrUiSalt == "Salt length must be between 16 and 64 bytes"
ErrUiIvGcm == "AES-GCM requires 12-byte IV"
ErrUiIvCbc == "AES-CBC requires 16-byte IV"
ErrUiIterations == "Iterations must be between 10,000 and 1,000,000"
ErrUiKeyLen == "Key length must be 16, 24, or 32 bytes"

\* the verdict, and the controls that carry aria-invalid afterwards
validateAdvancedSettings(u) ==
    LET settings == readAdvancedSettings(u)
        expectedIvLength == IF settings.algorithm = "AES-GCM" THEN 12 ELSE 16
        Verdict(ok, message, invalid) ==
            [ok |-> ok, settings |-> settings, message |-> message, invalid |-> invalid]
        i1 == u.invalid \ {"advSaltLen"}
        i2 == i1 \ {"advIvLen"}
        i3 == i2 \ {"advIterations"}
        i4 == i3 \ {"advKeyLen"}
    IN
    IF settings.saltLength < 16 \/ settings.saltLength > 64
    THEN Verdict(FALSE, ErrUiSalt, u.invalid \cup {"advSaltLen"})
    ELSE IF settings.ivLength # expectedIvLength
    THEN Verdict(FALSE, IF settings.algorithm = "AES-GCM" THEN ErrUiIvGcm ELSE ErrUiIvCbc,
                 i1 \cup {"advIvLen"})
    ELSE IF settings.iterations < 10000 \/ settings.iterations > 1000000
    THEN Verdict(FALSE, ErrUiIterations, i2 \cup {"advIterations"})
    ELSE IF settings.keyLength \notin {16, 24, 32}
    THEN Verdict(FALSE, ErrUiKeyLen, i3 \cup {"advKeyLen"})
    ELSE Verdict(TRUE, "", i4)

\* the change listener of the algorithm select
updateAlgorithmSettings(u) ==
    [u EXCEPT !.advIvLen = << IF IsGcmName(u.advAlgo) THEN 12 ELSE 16 >>,
              !.advKeyLen = << CASE u.advAlgo \in {"AES-192-CBC", "AES-192-GCM"} -> 24
                                 [] u.advAlgo \in {"AES-128-CBC", "AES-128-GCM"} -> 16
                                 [] OTHER -> 32 >>]

\* the option bag encryptText is given
SettingsOpts(settings) ==
    Opts(settings.algorithm, << settings.saltLength >>, << settings.ivLength >>,
         << settings.iterations >>, << settings.keyLength >>)

\* handleEncryptSubmit up to its await: the page it leaves, and whether
\* encryptText is called, with which arguments
handleEncryptSubmit(u) ==
    LET plaintext == sanitizeInput(u.plaintextInput)
        password == u.passwordInput
        passwordConfirm == u.passwordConfirmInput
        Returned(page) ==
            [ui |-> page, called |-> FALSE, plaintext |-> plaintext,
             password |-> password, opts |-> SettingsOpts(readAdvancedSettings(u))]
        matched == [u EXCEPT !.invalid = @ \ {"passwordConfirmInput"}]
        verdict == validateAdvancedSettings(matched)
        checked == [matched EXCEPT !.invalid = verdict.invalid]
    IN
    IF Len(plaintext) = 0
    THEN Returned([u EXCEPT !.notice = ErrPlainEmpty])
    ELSE IF IsBlank(password)
    THEN Returned([u EXCEPT !.notice = ErrPassEmpty])
    ELSE IF password # passwordConfirm
    THEN Returned([u EXCEPT !.notice = "Passwords must match",
                            !.invalid = @ \cup {"passwordConfirmInput"}])
    ELSE IF ~verdict.ok
    THEN Returned([checked EXCEPT !.notice = verdict.message])
    ELSE [ui |-> [checked EXCEPT !.encryptBtnDisabled = TRUE,
                                 !.encryptFormBusy = TRUE],
          called |-> TRUE, plaintext |-> plaintext, password |-> password,
          opts |-> SettingsOpts(verdict.settings)]

\* the same with the restoring statements at the end of the try block
\* instead of a finally block
handleEncryptResumedInTry(u, e) ==
    IF e.pc # "done" THEN u
    ELSE IF e.kind = "return"
    THEN [u EXCEPT !.cipherOutput = e.out, !.notice = "Encryption completed",
                   !.passwordInput = <<>>, !.passwordConfirmInput = <<>>,
                   !.plaintextInput = <<>>,
                   !.encryptBtnDisabled = FALSE, !.encryptFormBusy = FALSE,
                   !.settled = "encrypt"]
    ELSE [u EXCEPT !.notice = IF e.err = "" THEN "Encryption failed" ELSE e.err,
                   !.settled = "encrypt"]

\* handleEncryptSubmit from its await on, once encryptText has moved on to
\* `e`: nothing while the call is pending, then try, catch and finally
handleEncryptResumed(u, e) ==
    IF e.pc # "done" THEN u
    ELSE LET tried == IF e.kind = "return"
                      THEN [u EXCEPT !.cipherOutput = e.out,
                                     !.notice = "Encryption completed"]
                      ELSE [u EXCEPT !.notice = IF e.err = "" THEN "Encryption failed"
                                                ELSE e.err]
         IN [tried EXCEPT !.passwordInput = <<>>, !.passwordConfirmInput = <<>>,
                          !.plaintextInput = <<>>,
                          !.encryptBtnDisabled = FALSE, !.encryptFormBusy = FALSE,
                          !.settled = "encrypt"]

\* handleDecryptSubmit up to its await
handleDecryptSubmit(u) ==
    LET encString == Trim(u.cipherInput)
        password == u.decryptPasswordInput
        verdict == validateAdvancedSettings(u)
        checked == [u EXCEPT !.invalid = verdict.invalid]
        opts == [iterations |-> << verdict.settings.iterations >>,
                 keyLength |-> <<>>, algorithm |-> ""]
        Returned(page) ==
            [ui |-> page, called |-> FALSE, encString |-> encString,
             password |-> password, opts |-> opts]
    IN
    IF Len(encString) = 0
    THEN Returned([u EXCEPT !.notice = ErrEncEmpty])
    ELSE IF IsBlank(password)
    THEN Returned([u EXCEPT !.notice = ErrPassEmpty])
    ELSE IF ~verdict.ok
    THEN Returned([checked EXCEPT !.notice = verdict.message])
    ELSE [ui |-> [checked EXCEPT !.decryptBtnDisabled = TRUE,
                                 !.decryptFormBusy = TRUE],
          called |-> TRUE, encString |-> encString, password |-> password,
          opts |-> opts]

\* handleDecryptSubmit from its await on, once decryptText has moved on to `d`
handleDecryptResumed(u, d) ==
    IF d.pc # "done" THEN u
    ELSE LET tried == IF d.kind = "return"
                      THEN [u EXCEPT !.plainOutput = d.out,
                                     !.notice = "Decryption completed"]
                      ELSE [u EXCEPT !.notice = IF d.err = "" THEN "Decryption failed"
                                                ELSE d.err]
         IN [tried EXCEPT !.decryptPasswordInput = <<>>, !.cipherInput = <<>>,
                          !.decryptBtnDisabled = FALSE, !.decryptFormBusy = FALSE,
                          !.settled = "decrypt"]

\* both forms reset, the outputs emptied, the Advanced Settings back at
\* their defaults; no call in flight is touched
clearAll(u) ==
    LET reset == [u EXCEPT !.plaintextInput = <<>>, !.passwordInput = <<>>,
                           !.passwordConfirmInput = <<>>,
                           !.cipherInput = <<>>, !.decryptPasswordInput = <<>>,
                           !.cipherOutput = <<>>, !.plainOutput = <<>>,
                           !.advAlgo = "AES-256-CBC",
                           !.advSaltLen = << DEFAULTS.saltLength >>,
                           !.advIterations = << DEFAULTS.iterations >>,
                           !.advKeyLen = << DEFAULTS.keyLength >>]
    IN [updateAlgorithmSettings(reset) EXCEPT
           !.notice = "Cleared all fields and memory references"]

\* what the user types into the encrypt form: "a" between blanks with "pw"
\* twice, the same with a confirmation that differs, a blank plaintext
EncryptForms ==
    { [plaintext |-> << 32, 97, 32 >>, password |-> << 112, 119 >>,
       confirm |-> << 112, 119 >>],
      [plaintext |-> << 32, 97, 32 >>, password |-> << 112, 119 >>,
       confirm |-> << 112, 87 >>],
      [plaintext |-> << 32 >>, password |-> << 112, 119 >>, confirm |-> << 112, 119 >>] }

\* the AES-GCM envelope of an earlier session, pasted with a blank before it
PastedEnvelope == << " " >> \o PriorEnvelope("AES-GCM")

\* what the user puts into the decrypt form: the ciphertext output or, after
\* a blank, the envelope of an earlier session, with "pw"; that envelope
\* with a blank password; two hex digits with "pw"
DecryptForms(u) ==
    { [cipher |-> u.cipherOutput, password |-> << 112, 119 >>],
      [cipher |-> PastedEnvelope, password |-> << 112, 119 >>],
      [cipher |-> PastedEnvelope, password |-> << 32 >>],
      [cipher |-> << "0", "0" >>, password |-> << 112, 119 >>] }

\* the fills of the salt and of the IV that randomBytes draws for a submission
UiRandomFills == { << 9, 171 >>, << 171, 9 >> }

\* the entries of the algorithm select the user picks
PickedAlgorithms == {"AES-256-CBC", "AES-256-GCM"}

\* what the user types into the salt length field
SaltFields == { << 8 >>, << 32 >> }

\* during a step of the user the history keeps no settled handler
Quiet(u) == [u EXCEPT !.settled = "none"]

UiTypeEncrypt ==
    /\ \E f \in EncryptForms :
          ui' = [Quiet(ui) EXCEPT !.plaintextInput = f.plaintext,
                                  !.passwordInput = f.password,
                                  !.passwordConfirmInput = f.confirm]
    /\ UNCHANGED << enc, dec, cipherLog, heap, running, caches, sw, pk >>

UiTypeDecrypt ==
    /\ \E f \in DecryptForms(ui) :
          ui' = [Quiet(ui) EXCEPT !.cipherInput = f.cipher,
                                  !.decryptPasswordInput = f.password]
    /\ UNCHANGED << enc, dec, cipherLog, heap, running, caches, sw, pk >>

UiSelectAlgorithm ==
    /\ \E algo \in PickedAlgorithms :
          ui' = updateAlgorithmSettings([Quiet(ui) EXCEPT !.advAlgo = algo])
    /\ UNCHANGED << enc, dec, cipherLog, heap, running, caches, sw, pk >>

UiEditSaltLength ==
    /\ \E field \in SaltFields : ui' = [Quiet(ui) EXCEPT !.advSaltLen = field]
    /\ UNCHANGED << enc, dec, cipherLog, heap, running, caches, sw, pk >>

\* the record of a crypto call is kept while the call is pending and dropped
\* with the handler's return
Pending(call, idle) == IF call.pc = "done" THEN idle ELSE call

\* the submit event of the encrypt form, which a disabled submit button
\* keeps from firing, up to the first await encryptText does not get past
UiEncryptSubmit ==
    /\ ~ui.encryptBtnDisabled
    /\ LET h == handleEncryptSubmit([Quiet(ui) EXCEPT !.cleared = FALSE]) IN
       IF ~h.called
       THEN ui' = h.ui /\ UNCHANGED enc
       ELSE /\ ui.submits < MaxSubmits
            /\ \E fills \in UiRandomFills :
                  LET e == encryptTextBegin(h.plaintext, h.password, h.opts,
                                            fills[1], fills[2])
                  IN /\ enc' = Pending(e, EncIdle)
                     /\ ui' = handleEncryptResumed([h.ui EXCEPT !.submits = @ + 1], e)
    /\ UNCHANGED << dec, cipherLog, heap, running, caches, sw, pk >>

\* the key arrives for the pending encryptText
UiEncryptDerived ==
    /\ enc.pc = "derive"
    /\ LET e == encryptTextDerived(enc)
       IN /\ enc' = Pending(e, EncIdle)
          /\ ui' = handleEncryptResumed(Quiet(ui), e)
    /\ UNCHANGED << dec, cipherLog, heap, running, caches, sw, pk >>

\* the provider's encrypt settles, encryptText settles, the handler resumes
UiEncryptSettled ==
    /\ enc.pc = "cipher"
    /\ \E ok \in BOOLEAN :
          LET e == IF enc.algorithm = "AES-GCM" THEN encryptTextGcmSettled(enc, ok)
                   ELSE encryptTextCbcSettled(enc, ok)
          IN /\ enc' = Pending(e, EncIdle)
             /\ cipherLog' = IF ok THEN cipherLog \cup {Sealed(enc)} ELSE cipherLog
             /\ ui' = handleEncryptResumed(Quiet(ui), e)
    /\ UNCHANGED << dec, heap, running, caches, sw, pk >>

\* the submit event of the decrypt form
UiDecryptSubmit ==
    /\ ~ui.decryptBtnDisabled
    /\ LET h == handleDecryptSubmit([Quiet(ui) EXCEPT !.cleared = FALSE]) IN
       IF ~h.called
       THEN ui' = h.ui /\ UNCHANGED dec
       ELSE /\ ui.submits < MaxSubmits
            /\ LET d == decryptTextBegin(h.encString, h.password, h.opts)
               IN /\ dec' = Pending(d, DecIdle)
                  /\ ui' = handleDecryptResumed([h.ui EXCEPT !.submits = @ + 1], d)
    /\ UNCHANGED << enc, cipherLog, heap, running, caches, sw, pk >>

\* the provider answers the pending decryptText's candidate
UiDecryptAttempt ==
    /\ dec.pc = "loop"
    /\ \E opened \in Opened(dec, cipherLog) :
          LET d == decryptTextAttempt(dec, opened)
          IN /\ dec' = Pending(d, DecIdle)
             /\ ui' = handleDecryptResumed(Quiet(ui), d)
    /\ UNCHANGED << enc, cipherLog, heap, running, caches, sw, pk >>

\* a click on Clear
UiClearAll ==
    /\ ui' = [clearAll(Quiet(ui)) EXCEPT !.cleared = TRUE]
    /\ UNCHANGED << enc, dec, cipherLog, heap, running, caches, sw, pk >>

NextUI ==
    \/ UiTypeEncrypt
    \/ UiTypeDecrypt
    \/ UiSelectAlgorithm
    \/ UiEditSaltLength
    \/ UiEncryptSubmit
    \/ UiEncryptDerived
    \/ UiEncryptSettled
    \/ UiDecryptSubmit
    \/ UiDecryptAttempt
    \/ UiClearAll

SpecUI == Init /\ [][NextUI]_vars

-----------------------------------------------------------------------------
(* Vocabulary of the properties                                            *)

\* the crypto call of a submit handler has not settled yet
EncryptPending == enc.pc \in {"derive", "cipher"}
DecryptPending == dec.pc = "loop"

CountOf(trace, call) == Cardinality({i \in DOMAIN trace : trace[i] = call})

\* the hint is absent or names an AES key length
HintUsable(d) == d.hint = <<>> \/ d.hint[1] \in {16, 24, 32}

\* decryptText has finished on the envelope encryptText returned, with the
\* same password and the same iteration count
SameEnvelopeBack ==
    /\ enc.kind = "return"
    /\ dec.pc = "done"
    /\ dec.encString = enc.out
    /\ dec.password = enc.password
    /\ dec.iterations = enc.iterations

\* position of the key length in the order 32, 24, 16
RankOf(keyLength) == CASE keyLength = 32 -> 1 [] keyLength = 24 -> 2 [] OTHER -> 3

\* a and b have the same length and differ in exactly one bit
OneBitApart(a, b) ==
    /\ Len(a) = Len(b)
    /\ Cardinality({i \in 1..Len(a) : a[i] # b[i]}) = 1
    /\ \E i \in 1..Len(a), k \in 0..7 : b[i] = FlipBit(a[i], k)

\* t is the 4-field envelope e with one bit of its ciphertext or tag inverted
OneBitTampered(e, t) ==
    /\ Len(t) = Len(e)
    /\ t # e
    /\ LET pe == Split(e)
           pt == Split(t)
       IN /\ Len(pe) = 4 /\ Len(pt) = 4
          /\ pt[1] = pe[1] /\ pt[2] = pe[2]
          /\ \A f \in 3..4 : fromHex(pt[f]).ok
          /\ \/ pt[4] = pe[4] /\ OneBitApart(fromHex(pe[3]).bytes, fromHex(pt[3]).bytes)
             \/ pt[3] = pe[3] /\ OneBitApart(fromHex(pe[4]).bytes, fromHex(pt[4]).bytes)

LowerHex == {HexDigits[d] : d \in 1..16}

\* a lowercase hex string of exactly n bytes
HexOfBytes(field, n) ==
    /\ Len(field) = 2 * n
    /\ \A j \in 1..Len(field) : field[j] \in LowerHex

\* the parameters break the rule of the cipher: IV of 12 bytes for AES-GCM,
\* of 16 bytes for AES-CBC, key of 16, 24 or 32 bytes
BadCipherParams(algorithm, keyLength, ivLength) ==
    \/ keyLength \notin {16, 24, 32}
    \/ algorithm = "AES-GCM" /\ ivLength # 12
    \/ algorithm = "AES-CBC" /\ ivLength # 16

\* none of the calls was made
NoneCalled(trace, calls) == \A i \in DOMAIN trace : trace[i] \notin calls

\* the envelope has not 3 or 4 fields, or a field that (blanks around it aside)
\* has odd length or a character that is no hex digit
IsMalformed(env) ==
    LET parts == Split(env) IN
    \/ Len(parts) \notin {3, 4}
    \/ \E f \in 1..Len(parts) :
          LET field == Trim(parts[f]) IN
          \/ Len(field) % 2 = 1
          \/ \E j \in 1..Len(field) : ~IsHexChar(field[j])

-----------------------------------------------------------------------------
(* Properties                                                              *)

\* C1: decryptText applied to the envelope encryptText returned, with the same
\* password and iteration count and with no key-length hint or any valid one,
\* returns exactly the plaintext that was encrypted.
C1_RoundTrip ==
    (SameEnvelopeBack /\ HintUsable(dec))
        => (dec.kind = "return" /\ dec.out = enc.plaintext)

\* C2: decryptText applied to the envelope encryptText returned, with another
\* (non-blank) password, never returns a text: it throws the generic
\* decryption failure after the three candidate key lengths were tried.
C2_WrongPassword ==
    (/\ enc.kind = "return" /\ dec.pc = "done" /\ dec.encString = enc.out
     /\ dec.password # enc.password /\ ~IsBlank(dec.password) /\ HintUsable(dec))
        => (/\ dec.kind = "throw" /\ dec.err = ErrDecryptFailed
            /\ CountOf(dec.trace, "derive") = 3)

\* C3: decryptText applied, with the right password, to a 4-field envelope
\* that differs from the one encryptText returned in one bit of the ciphertext
\* or of the tag never returns a text: every candidate key length is tried and
\* fails, and the call throws the generic decryption failure.
C3_GcmTamper ==
    (/\ enc.kind = "return" /\ enc.algorithm = "AES-GCM" /\ dec.pc = "done"
     /\ dec.password = enc.password /\ HintUsable(dec)
     /\ OneBitTampered(enc.out, dec.encString))
        => (/\ dec.kind = "throw" /\ dec.err = ErrDecryptFailed
            /\ dec.succeededAt = 0
            /\ CountOf(dec.trace, "derive") = 3
            /\ (dec.iterations > 0 => CountOf(dec.trace, "decrypt") = 3))

C3_Witness ==
    /\ enc.kind = "return" /\ enc.algorithm = "AES-GCM" /\ dec.pc = "done"
    /\ dec.password = enc.password /\ dec.hint = <<>>
    /\ dec.iterations = enc.iterations
    /\ OneBitTampered(enc.out, dec.encString)
    /\ Split(dec.encString)[3] = Split(enc.out)[3]
    /\ dec.err = ErrDecryptFailed
    /\ CountOf(dec.trace, "decrypt") = 3

\* C4: an envelope returned by encryptText has 3 fields for AES-CBC and 4 for
\* AES-GCM, each of them lowercase hex of even length; the salt field encodes
\* saltLength bytes, the IV field 16 (CBC) or 12 (GCM) bytes, the tag 16 bytes.
C4_EnvelopeShape ==
    enc.kind = "return" =>
        LET parts == Split(enc.out) IN
        /\ Len(parts) = (IF enc.algorithm = "AES-GCM" THEN 4 ELSE 3)
        /\ \A f \in 1..Len(parts) :
              /\ Len(parts[f]) % 2 = 0
              /\ \A j \in 1..Len(parts[f]) : parts[f][j] \in LowerHex
        /\ HexOfBytes(parts[1], enc.saltLength)
        /\ HexOfBytes(parts[2], IF enc.algorithm = "AES-GCM" THEN 12 ELSE 16)
        /\ enc.algorithm = "AES-GCM" => HexOfBytes(parts[4], 16)

C4_Witness ==
    /\ enc.kind = "return" /\ enc.algorithm = "AES-GCM"
    /\ enc.saltLength = 64 /\ enc.bufs.salt = Fill(64, 9)
    /\ Len(Split(enc.out)) = 4

\* C5: without a hint the candidates are 32, 24, 16 in this order, and the
\* envelope encryptText returned is decrypted to the original plaintext at the
\* candidate that is its key length: the first for 32, the second for 24,
\* the third for 16.
C5_KeyLengthDiscovery ==
    (SameEnvelopeBack /\ dec.hint = <<>>)
        => (/\ dec.keyOrder = << 32, 24, 16 >>
            /\ dec.kind = "return"
            /\ dec.out = enc.plaintext
            /\ dec.succeededAt = RankOf(enc.keyLength))

\* C6: when decryptText has returned or thrown, every buffer it created holds
\* only zeros: salt, IV, ciphertext, tag, the decrypted bytes and the joined
\* buffer of every AES-GCM attempt.
C6_DecryptHygiene ==
    dec.pc = "done" =>
        /\ \A n \in dec.alloc : AllZero(dec.bufs[n])
        /\ \A j \in 1..Len(dec.joined) : AllZero(dec.joined[j])

\* C7: when encryptText has returned or thrown, the plaintext bytes, the padded
\* bytes and the ciphertext and tag buffers it created hold only zeros.
C7_EncryptHygiene ==
    enc.pc = "done" =>
        \A n \in enc.alloc \cap {"ptBytes", "padded", "all", "ciphertext", "tag"} :
            AllZero(enc.bufs[n])

\* C8: encryptText returns an envelope only when saltLength is in 16..64,
\* iterations is in 10000..1000000, keyLength is 16, 24 or 32 and the IV
\* length is the one of the algorithm.
C8_ParameterBounds ==
    enc.kind = "return" =>
        /\ enc.saltLength >= 16 /\ enc.saltLength <= 64
        /\ enc.iterations >= 10000 /\ enc.iterations <= 1000000
        /\ ~BadCipherParams(enc.algorithm, enc.keyLength, enc.ivLength)

\* C9: when the IV length does not fit the algorithm or the (first) key length
\* is not 16, 24 or 32, encryptText and decryptText throw a parameter error
\* and have drawn no random bytes, derived no key and called no cipher.
C9_ValidationFirst ==
    /\ (enc.pc # "idle" /\ BadCipherParams(enc.algorithm, enc.keyLength, enc.ivLength))
          => (/\ enc.kind = "throw" /\ enc.err \in ParamErrors
              /\ NoneCalled(enc.trace, {"random", "derive", "pad", "encrypt"}))
    /\ ("iv" \in dec.alloc
            /\ BadCipherParams(dec.algorithm, dec.keyOrder[1], Len(dec.bufs.iv)))
          => (/\ dec.kind = "throw" /\ dec.err \in ParamErrors
              /\ NoneCalled(dec.trace, {"derive", "decrypt"}))

C9_Witness ==
    /\ enc.kind = "return" /\ enc.algorithm = "AES-GCM"
    /\ dec.pc = "done" /\ dec.algorithm = "AES-CBC" /\ Len(dec.bufs.iv) = 12
    /\ ~IsBlank(dec.password)
    /\ dec.err = ErrCbcIv

\* C10: decryptText given an input that has not 3 or 4 fields, or a field of
\* odd length or with a character that is no hex digit, throws, and no key is
\* derived and no cipher called for any candidate key length.
C10_MalformedRejected ==
    (dec.pc # "idle" /\ IsMalformed(dec.encString))
        => (/\ dec.pc = "done" /\ dec.kind = "throw" /\ dec.succeededAt = 0
            /\ NoneCalled(dec.trace, {"derive", "decrypt"}))

C10_Witness ==
    /\ dec.pc = "done" /\ dec.nparts = 4 /\ dec.alloc = {"salt", "iv"}
    /\ ~IsBlank(dec.password)
    /\ dec.err = ErrHexChars
    /\ IsMalformed(dec.encString)


\* decryptText got past its input checks, the parsing of the four fields and
\* validateCipherParams with the first candidate
EnteredLoop(d) ==
    /\ Trim(d.encString) # <<>>
    /\ ~IsBlank(d.password)
    /\ ~IsMalformed(d.encString)
    /\ "iv" \in d.alloc
    /\ ~BadCipherParams(d.algorithm, d.keyOrder[1], Len(d.bufs.iv))

\* C11: every decryptText call that fails after the envelope was parsed and
\* validated throws the one error of the exhausted candidate list, and only
\* after validateCipherParams ran for each of the three candidates and no
\* candidate succeeded, whatever made the candidates fail.
C11_GenericFailure ==
    (dec.pc = "done" /\ dec.kind = "throw" /\ EnteredLoop(dec))
        => (/\ dec.err = ErrDecryptFailed
            /\ dec.idx = 3
            /\ CountOf(dec.trace, "validate") = 4
            /\ dec.succeededAt = 0)

\* a CBC envelope with an inverted ciphertext bit, right password and
\* iteration count: the provider rejected the padding under every candidate
C11_Witness ==
    /\ enc.kind = "return" /\ enc.algorithm = "AES-CBC"
    /\ dec.pc = "done" /\ dec.nparts = 3 /\ EnteredLoop(dec)
    /\ dec.password = enc.password /\ dec.iterations = enc.iterations
    /\ dec.encString # enc.out /\ Len(dec.encString) = Len(enc.out)
    /\ dec.err = ErrDecryptFailed
    /\ CountOf(dec.trace, "decrypt") = 6

\* C12: a decryptText call with an iterations hint that is zero or negative
\* throws the validation error "Iterations must be a positive integer" at the
\* first candidate: no second candidate is tried and the error is not the
\* generic decryption failure.
C12_ValidationImmediate ==
    (dec.pc = "done" /\ EnteredLoop(dec) /\ dec.iterations <= 0)
        => (/\ dec.kind = "throw"
            /\ dec.err = ErrIterations
            /\ CountOf(dec.trace, "derive") <= 1)

\* C13: with an algorithm and no ivLength in the options, the IV length in
\* effect is 16 for AES-CBC and 12 for AES-GCM; encryptText called with
\* {algorithm: "AES-GCM"} alone, a non-blank plaintext and password and a
\* provider that answers returns a 4-field envelope with a 12-byte IV and a
\* 32-byte salt.
C13_AlgorithmDefaults ==
    /\ (enc.pc # "idle" /\ enc.opts.ivLength = <<>>
            /\ enc.opts.algorithm \in {"AES-CBC", "AES-GCM"})
          => enc.ivLength = (IF enc.opts.algorithm = "AES-GCM" THEN 12 ELSE 16)
    /\ (/\ enc.pc = "done"
        /\ enc.opts = [algorithm |-> "AES-GCM", saltLength |-> <<>>,
                       ivLength |-> <<>>, iterations |-> <<>>, keyLength |-> <<>>]
        /\ ~IsBlank(enc.plaintext) /\ ~IsBlank(enc.password)
        /\ enc.err # ErrProvider)
          => (/\ enc.kind = "return"
              /\ Len(Split(enc.out)) = 4
              /\ HexOfBytes(Split(enc.out)[2], 12)
              /\ HexOfBytes(Split(enc.out)[1], 32))

\* the addresses a call holds
Held(call) ==
    ({call.refs[n] : n \in DOMAIN NoBufs} \ {0}) \cup {call.jrefs[j] : j \in 1..Len(call.jrefs)}

\* C14: at every point of every interleaving of two calls, each call's locals,
\* buffers, result and error are those of the same call run alone with the
\* same random draws and provider answers, and no buffer is held by both.
C14_CallIndependence ==
    /\ \A c \in CallIds : View(running[c], heap) = running[c].alone
    /\ Held(running[1]) \cap Held(running[2]) = {}

\* an encryptText and a decryptText have both returned and the buffers of one
\* were created between buffers of the other
C14_Witness ==
    \E c \in CallIds, o \in CallIds :
        /\ running[c].kind = "enc" /\ running[o].kind = "dec"
        /\ running[c].locals.kind = "return" /\ running[o].locals.kind = "return"
        /\ running[c].refs.salt < running[o].refs.salt
        /\ running[o].refs.salt < running[c].refs.ciphertext
        /\ running[c].refs.ciphertext < running[o].refs.ptBytes

\* the bytes are well-formed UTF-8: decoding and encoding gives them back
\* (a leading byte order mark aside)
IsText(bytes) ==
    LET text == utf8Decode(bytes)
    IN utf8Encode(text) = bytes \/ utf8Encode(<< ByteOrderMark >> \o text) = bytes

\* C15: when decryptText returns for a 3-field envelope, the text is that of
\* the raw decrypted bytes when these are well-formed text, and otherwise,
\* when they end in valid PKCS#7 padding, the text of the bytes without the
\* padding.
C15_CbcDualInterpretation ==
    (dec.pc = "done" /\ dec.kind = "return" /\ dec.algorithm = "AES-CBC")
        => IF IsText(dec.raw) THEN dec.out = utf8Decode(dec.raw)
           ELSE pkcs7Unpad(dec.raw).ok => dec.out = utf8Decode(pkcs7Unpad(dec.raw).bytes)

\* C16: once fetch events were handled, the cache storage is exactly what the
\* activate event left: no cache but the one named CACHE_NAME, and in it
\* nothing but core assets.
C16_NoRuntimeCaching ==
    sw.fetched > 0 =>
        /\ caches = sw.left
        /\ DOMAIN caches \subseteq {CACHE_NAME}
        /\ \A name \in DOMAIN caches : caches[name] \subseteq CORE_ASSETS

\* after an earlier fetch event, a same-origin asset that is not cached was
\* answered from the network while the core assets are cached
C16_Witness ==
    /\ sw.fetched >= 2
    /\ sw.request.method = "GET" /\ sw.request.mode = "cors"
    /\ sw.request.sameOrigin /\ sw.request.url = "api/data"
    /\ sw.response = "network"
    /\ CACHE_NAME \in DOMAIN caches /\ caches[CACHE_NAME] = CORE_ASSETS

\* C17: pkcs7Pad(d) is d followed by n bytes of value n, where
\* n = 16 - (Len(d) mod 16) is between 1 and 16; its length is a multiple of
\* 16 and greater than that of d.
C17_Pkcs7Pad ==
    pk.op = "pad" =>
        LET d == pk.data
            p == pk.out
            n == 16 - (Len(d) % 16)
        IN /\ n \in 1..16
           /\ Len(p) = Len(d) + n
           /\ Len(p) % 16 = 0 /\ Len(p) > Len(d)
           /\ SubSeq(p, 1, Len(d)) = d
           /\ \A i \in (Len(d) + 1)..Len(p) : p[i] = n

\* a whole block of padding after data of two blocks
C17_Witness ==
    /\ pk.op = "pad" /\ Len(pk.data) = 32 /\ Len(pk.out) = 48 /\ pk.out[48] = 16

\* the cases in which the padding of b is invalid
InvalidPadding(b) ==
    IF Len(b) = 0 THEN TRUE
    ELSE LET n == b[Len(b)] IN
         IF n = 0 \/ n > 16 \/ n > Len(b) THEN TRUE
         ELSE \E i \in (Len(b) - n + 1)..Len(b) : b[i] # n

\* C18: pkcs7Unpad(b) throws exactly when b is empty, or its last byte n is 0,
\* greater than 16 or greater than Len(b), or one of the last n bytes is not
\* n; otherwise it returns b without its last n bytes; and pkcs7Unpad of
\* pkcs7Pad(d) returns d.
C18_Pkcs7Unpad ==
    /\ pk.op = "unpad" =>
          /\ pk.ok = ~InvalidPadding(pk.data)
          /\ pk.ok => pk.out = SubSeq(pk.data, 1, Len(pk.data) - pk.data[Len(pk.data)])
    /\ pk.op = "unpad of pad" => (pk.ok /\ pk.out = pk.data)

\* a last byte 3 after bytes that are not 3: rejected for the other bytes
C18_Witness ==
    /\ pk.op = "unpad" /\ ~pk.ok
    /\ Len(pk.data) >= 16 /\ pk.data[Len(pk.data)] = 3 /\ pk.data[Len(pk.data) - 1] = 97

\* the steps of a whole encryptText call, in their order
FullPass(algorithm) ==
    IF algorithm = "AES-GCM"
    THEN << "validate", "random", "random", "derive", "encrypt", "serialize" >>
    ELSE << "validate", "random", "random", "derive", "pad", "encrypt", "serialize" >>

IsPrefix(a, b) == Len(a) <= Len(b) /\ SubSeq(b, 1, Len(a)) = a

\* C19: the steps an encryptText call has made are always the first steps of
\* the one pass validate, salt, IV, derive, (pad,) encrypt, serialize; a call
\* that returned made all of them once, derived its key from the salt it drew
\* and serialized that salt and IV; a call that threw stopped before the end.
C19_SinglePass ==
    enc.pc # "idle" =>
        /\ IsPrefix(enc.trace, FullPass(enc.algorithm))
        /\ enc.kind = "return" =>
              /\ enc.trace = FullPass(enc.algorithm)
              /\ enc.key.salt = enc.bufs.salt
              /\ Split(enc.out)[1] = toHex(enc.bufs.salt)
              /\ Split(enc.out)[2] = toHex(enc.bufs.iv)
        /\ enc.kind = "throw" => enc.trace # FullPass(enc.algorithm)

\* an AES-CBC call that returned
C19_Witness ==
    /\ enc.kind = "return" /\ enc.algorithm = "AES-CBC"
    /\ enc.trace = << "validate", "random", "random", "derive", "pad", "encrypt", "serialize" >>

\* C20: as soon as decryptText has parsed the IV, its algorithm is AES-GCM
\* for an input with three colons and AES-CBC for one with two, whatever the
\* fields hold and whatever the caller passed; an IV that is not 12 bytes
\* (GCM) or 16 bytes (CBC) ends the call before any key is derived; every
\* GCM attempt hands the provider the ciphertext followed by the tag, and a
\* CBC attempt joins nothing.
C20_StructuralInference ==
    "iv" \in dec.alloc =>
        LET fields == CountOf(dec.encString, ":") + 1
            algorithm == IF fields = 4 THEN "AES-GCM" ELSE "AES-CBC"
            required == IF fields = 4 THEN 12 ELSE 16
            parts == Split(dec.encString)
        IN /\ dec.algorithm = algorithm
           /\ Len(dec.bufs.iv) # required =>
                 /\ dec.kind = "throw"
                 /\ dec.err \in {ErrKeyLen, IF fields = 4 THEN ErrGcmIv ELSE ErrCbcIv}
                 /\ NoneCalled(dec.trace, {"derive", "decrypt"})
           /\ fields = 3 => dec.joined = <<>>
           /\ fields = 4 =>
                 /\ Len(dec.joined) = CountOf(dec.trace, "decrypt")
                 /\ \A j \in 1..Len(dec.joined) :
                       \/ dec.joined[j] = fromHex(parts[3]).bytes \o fromHex(parts[4]).bytes
                       \/ j = Len(dec.joined) /\ dec.kind = "return"
                          /\ dec.joined[j] = wipeBytes(fromHex(parts[3]).bytes
                                                       \o fromHex(parts[4]).bytes)

\* a 4-field envelope given with opts.algorithm = "AES-CBC" was opened as
\* AES-GCM and its plaintext returned
C20_Witness ==
    /\ enc.kind = "return" /\ dec.encString = enc.out /\ dec.nparts = 4
    /\ dec.asked = "AES-CBC" /\ dec.algorithm = "AES-GCM"
    /\ dec.kind = "return" /\ CountOf(dec.trace, "decrypt") >= 1

\* position of a key length in a candidate list
PositionIn(keyOrder, keyLength) ==
    CHOOSE i \in 1..Len(keyOrder) : keyOrder[i] = keyLength

InputsIntact(d) ==
    LET parts == Split(d.encString) IN
    /\ d.bufs.salt = fromHex(parts[1]).bytes
    /\ d.bufs.iv = fromHex(parts[2]).bytes
    /\ d.bufs.ciphertext = fromHex(parts[3]).bytes
    /\ d.nparts = 4 => d.bufs.tag = fromHex(parts[4]).bytes

\* C22: while decryptText is in its candidate loop, before the first, second
\* or third attempt, salt, IV, ciphertext and tag hold the bytes parsed from
\* the envelope; when the call has ended with one of them changed, it either
\* returned a text or threw after its third candidate.
C22_IntactInputs ==
    /\ dec.pc = "loop" => (dec.idx \in 1..3 /\ InputsIntact(dec))
    /\ (dec.pc = "done" /\ "ciphertext" \in dec.alloc /\ ~InputsIntact(dec))
          => \/ dec.kind = "return" /\ dec.succeededAt \in 1..3
             \/ dec.kind = "throw" /\ dec.idx = 3 /\ dec.succeededAt = 0

\* before the third attempt on an AES-GCM envelope, after two rejected ones,
\* the salt is still the one encryptText drew
C22_Witness ==
    /\ enc.kind = "return" /\ enc.algorithm = "AES-GCM"
    /\ dec.pc = "loop" /\ dec.idx = 3 /\ Len(dec.joined) = 2
    /\ dec.bufs.salt = enc.bufs.salt /\ ~AllZero(dec.bufs.salt)
    /\ ~AllZero(dec.bufs.tag)

\* C23: while the crypto call of an encrypt or decrypt submission that passed
\* validation is pending, the form's submit button is disabled and the form
\* is marked busy; in the step in which the call settles, resolved or
\* rejected, the button is enabled again, the busy mark is gone and the
\* password fields and the form's input are empty; the encrypt button is
\* disabled at no time at which no encrypt call is pending.
C23_FormRestored ==
    /\ EncryptPending => ui.encryptBtnDisabled /\ ui.encryptFormBusy
    /\ DecryptPending => ui.decryptBtnDisabled /\ ui.decryptFormBusy
    /\ ui.settled = "encrypt" =>
          /\ ~EncryptPending
          /\ ~ui.encryptBtnDisabled /\ ~ui.encryptFormBusy
          /\ ui.passwordInput = <<>> /\ ui.passwordConfirmInput = <<>>
          /\ ui.plaintextInput = <<>>
    /\ ui.settled = "decrypt" =>
          /\ ~DecryptPending
          /\ ~ui.decryptBtnDisabled /\ ~ui.decryptFormBusy
          /\ ui.decryptPasswordInput = <<>> /\ ui.cipherInput = <<>>
    /\ ~EncryptPending => ~ui.encryptBtnDisabled

\* an encrypt call the provider rejected has just settled and left the
\* ciphertext output empty, while a decrypt call is still pending
C23_Witness ==
    /\ ui.settled = "encrypt"
    /\ ui.notice = ErrProvider
    /\ ui.cipherOutput = <<>>
    /\ DecryptPending
    /\ ui.decryptBtnDisabled

\* C24: once clearAll has run, the ciphertext output and the plaintext output
\* stay empty until a form is submitted again, whatever call was pending
\* when it ran.
C24_ClearStaysClear ==
    ui.cleared => ui.cipherOutput = <<>> /\ ui.plainOutput = <<>>

=============================================================================
